---- MODULE Spec2Model ----
(***************************************************************************)
(* The in-memory rate limiter of src/lib/rate-limiter.ts (class            *)
(* RateLimiter: cleanupTimestamps, calculateDelay, checkThresholds,        *)
(* requestPermission, wrapAsync) as a state machine, together with its     *)
(* users: optimizePortfolio, uploadTickers and generateRandomAllocations   *)
(* of src/lib/api.ts and the handlers of the page, src/app/page.tsx.       *)
(*                                                                         *)
(* An async function runs without interruption up to its next await, so    *)
(* one action is the code between two awaits of one call.                  *)
(*                                                                         *)
(* Time is the value of Date.now() in milliseconds, counted from the       *)
(* construction of the limiter (the code only ever compares differences    *)
(* of clock readings).  The window lengths and the delay buffer keep the   *)
(* values of the source.                                                   *)
(*                                                                         *)
(* A warning string is modelled by the sequence of the messages it is      *)
(* made of (they are joined by one space in the source); each message      *)
(* keeps its wording, its count and its limit.  The empty sequence is      *)
(* `undefined`.                                                            *)
(***************************************************************************)
EXTENDS Integers, Sequences, FiniteSets, TLC

\* ------------------------------------------------------------------ bounds
MaxHourlyLimit == 2
MaxDailyLimit == 3
MaxTicks == 3
MaxShortTicks == 1
MaxSleeps == 3
MaxLiveTicks == 2
MaxTickers == 2
MaxAdmitted == 2
MaxOptTicks == 1
MaxFiles == 2
MaxAssets == 5

\* ------------------------------------------------------- program constants
HourMs == 3600000
DayMs == 86400000
DelayBufferMs == 100
DefaultDelayMs == 1000
DEFAULT_WARNING_THRESHOLD == 10
\* delayMs?: number -- the field is absent
Absent == -1
MockFallbackCount == 5
PercentTotal == 100000

\* warningThresholdPercent, in hundredths (0.1 is 10)
ThresholdPercents == {DEFAULT_WARNING_THRESHOLD, 50}

Callers == {"c1", "c2"}
\* the callers of the serial design: one invocation at a time
Serial == {"c1"}
Tickers == {"AAPL", "MSFT"}
NoArgs == "-"
\* what the wrapped fn settles with: a series (empty or not) or a failure
FnOutcomes == {[kind |-> "resolved", value |-> "series"],
               [kind |-> "resolved", value |-> "empty"],
               [kind |-> "rejected", value |-> "Error"]}
Pending == [kind |-> "pending", value |-> "-"]
\* how one fetch of optimizePortfolio can settle: the outcomes above and
\* Errors whose message optimizePortfolio looks for
FetchOutcomes ==
    FnOutcomes \cup {[kind |-> "rejected", value |-> "Rate limit reached"],
                     [kind |-> "rejected", value |-> "API Key is missing"]}
MOCK_ASSETS == <<"AAPL", "MSFT", "GOOGL", "AMZN", "TSLA", "NVDA", "BRK-A", "JPM", "V", "JNJ">>
Methods == {"Modern Portfolio Theory", "Monte Carlo Simulation", "Equal Weighting"}
\* File objects by their names, and the lists of at most MaxFiles of them
FileNames == {"AAPL.csv", "MSFT.TXT", "notes.pdf"}
FileLists == UNION {[1..n -> FileNames] : n \in 0..MaxFiles}
\* params.uploadedFileNames: the lists of at most MaxTickers names
TickerLists == UNION {[1..n -> Tickers] : n \in 0..MaxTickers}

VARIABLES
    hourlyLimit,                \* this.hourlyLimit
    dailyLimit,                 \* this.dailyLimit
    warningThresholdPercent,    \* options.warningThresholdPercent, in hundredths
    hourlyRequestTimestamps,    \* this.hourlyRequestTimestamps
    dailyRequestTimestamps,     \* this.dailyRequestTimestamps
    now,                        \* Date.now()
    ticks,                      \* number of clock advances so far (bounds the run)
    ret,                        \* what the last call of the limiter returned
    lastAct,                    \* the step taken last
    denial,                     \* the last denial, while no call followed it
    admitted,                   \* history: the timestamp of every admitted call
    nCalls,                     \* history: requestPermission() calls so far (saturating)
    firstCallAt,                \* history: time of the first requestPermission()
    pc,                         \* wrapAsync: position of each caller's invocation
    args,                       \* wrapAsync: ...args of the invocation
    wakeAt,                     \* wrapAsync: when delay(delayTime) resolves
    sleeps,                     \* history: delays awaited in this invocation
    fnCalls,                    \* history: calls of fn in this invocation
    fnArgs,                     \* history: the arguments fn was called with
    admits,                     \* history: allowed results in this invocation
    units,                      \* history: timestamps recorded by this invocation
    fnOutcome,                  \* history: how fn settled
    outcome,                    \* how the invocation settled
    run,                        \* optimizePortfolio: the locals of the current run
    page,                       \* Home: the component's state and handleOptimize
    alloc,                      \* generateRandomAllocations: its locals
    hist                        \* getHistoricalData: the locals of a call

limiterVars == <<hourlyLimit, dailyLimit, warningThresholdPercent,
                 hourlyRequestTimestamps, dailyRequestTimestamps>>
configVars == <<hourlyLimit, dailyLimit, warningThresholdPercent>>
historyVars == <<admitted, nCalls, firstCallAt>>
wrapVars == <<pc, args, wakeAt, sleeps, fnCalls, fnArgs, admits, units, fnOutcome, outcome>>
optVars == <<run, page, alloc, hist>>
vars == <<hourlyLimit, dailyLimit, warningThresholdPercent,
          hourlyRequestTimestamps, dailyRequestTimestamps, now, ticks, ret,
          lastAct, denial, admitted, nCalls, firstCallAt,
          pc, args, wakeAt, sleeps, fnCalls, fnArgs, admits, units, fnOutcome,
          outcome, run, page, alloc, hist>>

\* ----------------------------------------------------------------- helpers
Max(a, b) == IF a >= b THEN a ELSE b
Min(a, b) == IF a <= b THEN a ELSE b

Msg(kind, count, limit) == [kind |-> kind, count |-> count, limit |-> limit]
Undefined == <<>>

\* faulty variant: the threshold taken as the share used, limit * warningThreshold
WarningThresholdReachedShare(count, limit) ==
    count * 100 >= limit * warningThresholdPercent

\* this.warningThresholdHourly = hourlyLimit * (1 - warningThreshold); the
\* comparison count >= threshold is made on both sides times 100.
WarningThresholdReached(count, limit) ==
    count * 100 >= limit * (100 - warningThresholdPercent)

\* faulty variant: the daily array filtered against oneHourAgo
CleanupTimestampsHourForDay(hs, ds, t) ==
    [hourly |-> SelectSeq(hs, LAMBDA ts : ts > t - HourMs),
     daily  |-> SelectSeq(ds, LAMBDA ts : ts > t - HourMs)]

\* faulty variant: ts >= oneHourAgo, ts >= oneDayAgo
CleanupTimestampsInclusive(hs, ds, t) ==
    [hourly |-> SelectSeq(hs, LAMBDA ts : ts >= t - HourMs),
     daily  |-> SelectSeq(ds, LAMBDA ts : ts >= t - DayMs)]

\* cleanupTimestamps(now): the two filtered arrays
CleanupTimestamps(hs, ds, t) ==
    [hourly |-> SelectSeq(hs, LAMBDA ts : ts > t - HourMs),
     daily  |-> SelectSeq(ds, LAMBDA ts : ts > t - DayMs)]

\* faulty variant: the window length left out of timeUntilExpiry
CalculateDelayNoWindow(timestamps, expiryTime, t) ==
    IF Len(timestamps) = 0
    THEN 0
    ELSE Max(0, timestamps[1] - t) + DelayBufferMs

\* faulty variant: the newest timestamp taken for the oldest
CalculateDelayNewest(timestamps, expiryTime, t) ==
    IF Len(timestamps) = 0
    THEN 0
    ELSE Max(0, timestamps[Len(timestamps)] + expiryTime - t) + DelayBufferMs

\* calculateDelay(limitType, now) on the array and window of that limit type
CalculateDelay(timestamps, expiryTime, t) ==
    IF Len(timestamps) = 0
    THEN 0
    ELSE Max(0, timestamps[1] + expiryTime - t) + DelayBufferMs

\* faulty variant: the daily message is put before the hourly one
ThresholdWarningDailyFirst(hourlyCount, dailyCount) ==
    LET hourlyW ==
            IF hourlyCount >= hourlyLimit
            THEN <<Msg("Hourly rate limit exceeded", hourlyCount, hourlyLimit)>>
            ELSE IF WarningThresholdReached(hourlyCount, hourlyLimit)
            THEN <<Msg("Approaching hourly rate limit", hourlyCount, hourlyLimit)>>
            ELSE Undefined
        dailyW ==
            IF dailyCount >= dailyLimit
            THEN <<Msg("Daily rate limit exceeded", dailyCount, dailyLimit)>>
            ELSE IF WarningThresholdReached(dailyCount, dailyLimit)
            THEN <<Msg("Approaching daily rate limit", dailyCount, dailyLimit)>>
            ELSE Undefined
    IN  dailyW \o hourlyW

\* the warning checkThresholds() composes from the two counts
ThresholdWarning(hourlyCount, dailyCount) ==
    LET hourlyW ==
            IF hourlyCount >= hourlyLimit
            THEN <<Msg("Hourly rate limit exceeded", hourlyCount, hourlyLimit)>>
            ELSE IF WarningThresholdReached(hourlyCount, hourlyLimit)
            THEN <<Msg("Approaching hourly rate limit", hourlyCount, hourlyLimit)>>
            ELSE Undefined
        dailyW ==
            IF dailyCount >= dailyLimit
            THEN <<Msg("Daily rate limit exceeded", dailyCount, dailyLimit)>>
            ELSE IF WarningThresholdReached(dailyCount, dailyLimit)
            THEN <<Msg("Approaching daily rate limit", dailyCount, dailyLimit)>>
            ELSE Undefined
    IN  hourlyW \o dailyW

\* faulty variant: checkThresholds() records the check as a call
CheckThresholdsCallRecording(hs, ds, t) ==
    LET c == CleanupTimestamps(hs, ds, t)
    IN  [hourly  |-> Append(c.hourly, t),
         daily   |-> Append(c.daily, t),
         warning |-> ThresholdWarning(Len(c.hourly), Len(c.daily))]

\* faulty variant: the counts are taken before the expired timestamps are
\* removed
CheckThresholdsCallStale(hs, ds, t) ==
    LET c == CleanupTimestamps(hs, ds, t)
    IN  [hourly  |-> c.hourly,
         daily   |-> c.daily,
         warning |-> ThresholdWarning(Len(hs), Len(ds))]

\* checkThresholds(): the arrays it leaves and the string it returns
CheckThresholdsCall(hs, ds, t) ==
    LET c == CleanupTimestamps(hs, ds, t)
    IN  [hourly  |-> c.hourly,
         daily   |-> c.daily,
         warning |-> ThresholdWarning(Len(c.hourly), Len(c.daily))]

\* faulty variant: the call being asked for is counted before the comparison
HourlyExceededEarly(hourlyCount) == hourlyCount + 1 >= hourlyLimit

\* faulty variant: > for >=
HourlyExceededLate(hourlyCount) == hourlyCount > hourlyLimit

\* if (hourlyCount >= this.hourlyLimit)
HourlyExceeded(hourlyCount) == hourlyCount >= hourlyLimit

\* if (dailyCount >= this.dailyLimit)
DailyExceeded(dailyCount) == dailyCount >= dailyLimit

\* the return of the hourly branch: nothing is recorded
DenyHourly(c, t) ==
    [hourly  |-> c.hourly,
     daily   |-> c.daily,
     allowed |-> FALSE,
     delayMs |-> CalculateDelay(c.hourly, HourMs, t),
     warning |-> <<Msg("Hourly rate limit exceeded", Len(c.hourly), hourlyLimit)>>]

\* the return of the daily branch: nothing is recorded
DenyDaily(c, t) ==
    [hourly  |-> c.hourly,
     daily   |-> c.daily,
     allowed |-> FALSE,
     delayMs |-> CalculateDelay(c.daily, DayMs, t),
     warning |-> <<Msg("Daily rate limit exceeded", Len(c.daily), dailyLimit)>>]

\* faulty variant: now is pushed on the hourly array only
AllowHourlyOnly(c, t) ==
    LET k == CheckThresholdsCall(c.hourly, c.daily, t)
    IN  [hourly  |-> Append(k.hourly, t),
         daily   |-> k.daily,
         allowed |-> TRUE,
         delayMs |-> Absent,
         warning |-> k.warning]

\* faulty variant: the warning is taken after now has been pushed
AllowWarningAfterPush(c, t) ==
    LET k == CheckThresholdsCall(Append(c.hourly, t), Append(c.daily, t), t)
    IN  [hourly  |-> k.hourly,
         daily   |-> k.daily,
         allowed |-> TRUE,
         delayMs |-> Absent,
         warning |-> k.warning]

\* faulty variant: now is put at the front of both arrays (unshift for push)
AllowUnshift(c, t) ==
    LET k == CheckThresholdsCall(c.hourly, c.daily, t)
    IN  [hourly  |-> <<t>> \o k.hourly,
         daily   |-> <<t>> \o k.daily,
         allowed |-> TRUE,
         delayMs |-> Absent,
         warning |-> k.warning]

\* the last branch: the warning of checkThresholds() is taken first, then now
\* is pushed on both arrays.  (checkThresholds() reads the clock again; the
\* call is synchronous and both readings are given the same value.)
Allow(c, t) ==
    LET k == CheckThresholdsCall(c.hourly, c.daily, t)
    IN  [hourly  |-> Append(k.hourly, t),
         daily   |-> Append(k.daily, t),
         allowed |-> TRUE,
         delayMs |-> Absent,
         warning |-> k.warning]

\* the array q without its newest entry
ButLast(q) == IF q = <<>> THEN <<>> ELSE SubSeq(q, 1, Len(q) - 1)

\* faulty variant: an await between the check and the push, so that the check
\* is made on counts that miss a timestamp another caller has pushed since
RequestPermissionCallAwaiting(hs, ds, t) ==
    LET c == CleanupTimestamps(hs, ds, t)
    IN  IF HourlyExceeded(Len(ButLast(c.hourly))) THEN DenyHourly(c, t)
        ELSE IF DailyExceeded(Len(ButLast(c.daily))) THEN DenyDaily(c, t)
        ELSE Allow(c, t)

\* requestPermission(): the arrays it leaves and the object it returns
RequestPermissionCall(hs, ds, t) ==
    LET c == CleanupTimestamps(hs, ds, t)
    IN  IF HourlyExceeded(Len(c.hourly)) THEN DenyHourly(c, t)
        ELSE IF DailyExceeded(Len(c.daily)) THEN DenyDaily(c, t)
        ELSE Allow(c, t)

\* ------------------------------------------------------------------- state
NoDenial == [at |-> -1, delayMs |-> Absent, limitType |-> "none"]
\* ret: op, allowed, delayMs, warning are the call and its return value; at is
\* the clock of the call; pruned counts the expired timestamps it removed;
\* waited tells that it came exactly delayMs after an hourly denial with no
\* call of the limiter in between.
NoRet == [op |-> "none", allowed |-> FALSE, delayMs |-> Absent,
          warning |-> Undefined, at |-> 0, pruned |-> 0, waited |-> FALSE]

\* the expired timestamps a call that leaves the arrays h and d has removed
Pruned(h, d, pushed) ==
    Len(hourlyRequestTimestamps) + Len(dailyRequestTimestamps) + pushed
        - (Len(h) + Len(d))

\* no optimizePortfolio run yet.  tickersToFetch, allStockData (its keys),
\* rateLimitWarning and dataFetchedSuccessfully are the locals; index is the
\* position of the for loop; fetched, outcomes, checks and checked are
\* history: the tickers rateLimitedFetchStockData was called with, how the
\* calls settled, the calls of checkThresholds() and what the last returned.
NoResponse == [kind |-> "none"]
NoRun ==
    [pc |-> "none", uploadedFileNames |-> <<>>, method |-> "-",
     tickersToFetch |-> <<>>, index |-> 0,
     allStockData |-> {}, rateLimitWarning |-> Undefined,
     dataFetchedSuccessfully |-> TRUE, response |-> NoResponse,
     fetched |-> <<>>, outcomes |-> <<>>, checks |-> 0, checked |-> Undefined]

\* useState(...): the state of the page.  pc is the position of
\* handleOptimize, files and method what its closure captured.
NoResults == [allocations |-> 0]
Null == "null"
\* const initialFiltersState
initialFiltersState == [marketCapMin |-> Null, volumeMin |-> Null, interval |-> "daily"]
\* const initialSelectedMethodState
initialSelectedMethodState == "Modern Portfolio Theory"
InitialPage ==
    [pc |-> "idle", uploadedFiles |-> <<>>,
     filters |-> initialFiltersState,
     selectedMethod |-> initialSelectedMethodState,
     optimizationResults |-> NoResults, isLoading |-> FALSE, error |-> Null,
     filterSuggestions |-> Null, isSuggestingFilters |-> FALSE,
     suggestionsError |-> Null,
     files |-> <<>>, method |-> "-"]
NoAlloc == [pc |-> "none"]
NoHist == [pc |-> "none"]

\* the limiter, its callers and the page before anything has been called
BaseState ==
    /\ hourlyRequestTimestamps = <<>>
    /\ dailyRequestTimestamps = <<>>
    /\ now = 0
    /\ ticks = 0
    /\ ret = NoRet
    /\ lastAct = "init"
    /\ denial = NoDenial
    /\ admitted = <<>>
    /\ nCalls = 0
    /\ firstCallAt = 0
    /\ pc = [c \in Callers |-> "idle"]
    /\ args = [c \in Callers |-> NoArgs]
    /\ wakeAt = [c \in Callers |-> 0]
    /\ sleeps = [c \in Callers |-> 0]
    /\ fnCalls = [c \in Callers |-> 0]
    /\ fnArgs = [c \in Callers |-> NoArgs]
    /\ admits = [c \in Callers |-> 0]
    /\ units = [c \in Callers |-> <<0, 0>>]
    /\ fnOutcome = [c \in Callers |-> Pending]
    /\ outcome = [c \in Callers |-> Pending]
    /\ run = NoRun
    /\ page = InitialPage

InitState ==
    /\ BaseState
    /\ alloc = NoAlloc
    /\ hist = NoHist

\* new RateLimiter(options)
Init ==
    /\ hourlyLimit \in 1..MaxHourlyLimit
    /\ dailyLimit \in 1..MaxDailyLimit
    /\ warningThresholdPercent \in ThresholdPercents
    /\ InitState

\* the bookkeeping of one requestPermission() call that returned r at time now
Permission(r) ==
    /\ hourlyRequestTimestamps' = r.hourly
    /\ dailyRequestTimestamps' = r.daily
    /\ ret' = [op |-> "requestPermission", allowed |-> r.allowed,
               delayMs |-> r.delayMs, warning |-> r.warning, at |-> now,
               pruned |-> Pruned(r.hourly, r.daily, IF r.allowed THEN 2 ELSE 0),
               waited |-> /\ denial.limitType = "hourly"
                          /\ now = denial.at + denial.delayMs]
    /\ denial' = IF r.allowed THEN NoDenial
                 ELSE [at |-> now, delayMs |-> r.delayMs,
                       limitType |-> IF r.warning[1].kind = "Hourly rate limit exceeded"
                                     THEN "hourly" ELSE "daily"]
    /\ admitted' = IF r.allowed THEN Append(admitted, now) ELSE admitted
    /\ nCalls' = Min(nCalls + 1, MaxHourlyLimit + 2)
    /\ firstCallAt' = IF nCalls = 0 THEN now ELSE firstCallAt

\* ----------------------------------------------------------------- actions
\* the clock advances: by a millisecond, an hour, the rest of a day, the
\* delay the last denial asked for, or up to the wake-up of a sleeping caller
TickChoices ==
    {1, HourMs, DayMs - HourMs}
        \cup (IF denial.limitType # "none" THEN {denial.delayMs} \ {0} ELSE {})
        \cup {wakeAt[c] - now : c \in {x \in Callers : pc[x] = "delay" /\ wakeAt[x] > now}}

Tick ==
    /\ ticks < MaxTicks
    /\ \E d \in TickChoices : now' = now + d
    /\ ticks' = ticks + 1
    /\ lastAct' = "tick"
    /\ UNCHANGED <<limiterVars, ret, denial, historyVars, wrapVars, optVars>>

\* the clock advances by one millisecond
ShortTick ==
    /\ ticks < MaxShortTicks
    /\ now' = now + 1
    /\ ticks' = ticks + 1
    /\ lastAct' = "tick"
    /\ UNCHANGED <<limiterVars, ret, denial, historyVars, wrapVars, optVars>>

\* a direct call of requestPermission()
RequestPermission ==
    /\ Permission(RequestPermissionCall(hourlyRequestTimestamps, dailyRequestTimestamps, now))
    /\ lastAct' = "requestPermission"
    /\ UNCHANGED <<configVars, now, ticks, wrapVars, optVars>>

\* the bookkeeping of one checkThresholds() call at time now
Thresholds(k) ==
    /\ hourlyRequestTimestamps' = k.hourly
    /\ dailyRequestTimestamps' = k.daily
    /\ ret' = [op |-> "checkThresholds", allowed |-> FALSE, delayMs |-> Absent,
               warning |-> k.warning, at |-> now,
               pruned |-> Pruned(k.hourly, k.daily, 0), waited |-> FALSE]
    /\ denial' = NoDenial

\* a direct call of checkThresholds()
CheckThresholds ==
    /\ Thresholds(CheckThresholdsCall(hourlyRequestTimestamps, dailyRequestTimestamps, now))
    /\ lastAct' = "checkThresholds"
    /\ UNCHANGED <<configVars, now, ticks, historyVars, wrapVars, optVars>>

\* a direct call of checkThresholds() that follows another one at once
CheckThresholdsAgain ==
    /\ lastAct = "checkThresholds"
    /\ Thresholds(CheckThresholdsCall(hourlyRequestTimestamps, dailyRequestTimestamps, now))
    /\ lastAct' = "checkThresholdsAgain"
    /\ UNCHANGED <<configVars, now, ticks, historyVars, wrapVars, optVars>>

\* faulty variant: the delay the denial asked for is ignored
DelayTimeAlwaysDefault(delayMs) == DefaultDelayMs

\* const delayTime = permission.delayMs || 1000
DelayTime(delayMs) ==
    IF delayMs = Absent \/ delayMs = 0 THEN DefaultDelayMs ELSE delayMs

\* faulty variant: fn is called whatever requestPermission() returned
AfterPermissionUnchecked(c, r, a, calls, slept) ==
    /\ pc' = [pc EXCEPT ![c] = "fn"]
    /\ fnCalls' = [fnCalls EXCEPT ![c] = calls + 1]
    /\ fnArgs' = [fnArgs EXCEPT ![c] = a]
    /\ sleeps' = [sleeps EXCEPT ![c] = slept]
    /\ UNCHANGED wakeAt

\* faulty variant: the loop is left after one retry and the invocation ends
AfterPermissionCapped(c, r, a, calls, slept) ==
    IF r.allowed
    THEN /\ pc' = [pc EXCEPT ![c] = "fn"]
         /\ fnCalls' = [fnCalls EXCEPT ![c] = calls + 1]
         /\ fnArgs' = [fnArgs EXCEPT ![c] = a]
         /\ sleeps' = [sleeps EXCEPT ![c] = slept]
         /\ UNCHANGED wakeAt
    ELSE /\ pc' = [pc EXCEPT ![c] = IF slept >= 1 THEN "idle" ELSE "delay"]
         /\ wakeAt' = [wakeAt EXCEPT ![c] = now + DelayTime(r.delayMs)]
         /\ sleeps' = [sleeps EXCEPT ![c] = slept + 1]
         /\ fnCalls' = [fnCalls EXCEPT ![c] = calls]
         /\ fnArgs' = [fnArgs EXCEPT ![c] = NoArgs]

\* rateLimitedFn after a requestPermission() that returned r: the loop either
\* awaits delay(delayTime) or is left and fn(...args) is called.  calls and
\* slept are the invocation's counts so far.
AfterPermission(c, r, a, calls, slept) ==
    IF r.allowed
    THEN /\ pc' = [pc EXCEPT ![c] = "fn"]
         /\ fnCalls' = [fnCalls EXCEPT ![c] = calls + 1]
         /\ fnArgs' = [fnArgs EXCEPT ![c] = a]
         /\ sleeps' = [sleeps EXCEPT ![c] = slept]
         /\ UNCHANGED wakeAt
    ELSE /\ pc' = [pc EXCEPT ![c] = "delay"]
         /\ wakeAt' = [wakeAt EXCEPT ![c] = now + DelayTime(r.delayMs)]
         /\ sleeps' = [sleeps EXCEPT ![c] = slept + 1]
         /\ fnCalls' = [fnCalls EXCEPT ![c] = calls]
         /\ fnArgs' = [fnArgs EXCEPT ![c] = NoArgs]

\* the timestamps a requestPermission() that returned r has pushed on the
\* hourly and on the daily array
Recorded(r) ==
    LET c == CleanupTimestamps(hourlyRequestTimestamps, dailyRequestTimestamps, now)
    IN  <<Len(r.hourly) - Len(c.hourly), Len(r.daily) - Len(c.daily)>>

\* rateLimitedFn(...args) up to its first await: the first requestPermission()
Call(c, a) ==
    /\ LET r == RequestPermissionCall(hourlyRequestTimestamps, dailyRequestTimestamps, now)
       IN  /\ Permission(r)
           /\ args' = [args EXCEPT ![c] = a]
           /\ admits' = [admits EXCEPT ![c] = IF r.allowed THEN 1 ELSE 0]
           /\ units' = [units EXCEPT ![c] = Recorded(r)]
           /\ fnOutcome' = [fnOutcome EXCEPT ![c] = Pending]
           /\ outcome' = [outcome EXCEPT ![c] = Pending]
           /\ AfterPermission(c, r, a, 0, 0)
    /\ UNCHANGED <<configVars, now, ticks>>

\* rateLimitedFn(...args) is called
Invoke(c, a) ==
    /\ pc[c] = "idle"
    /\ Call(c, a)
    /\ lastAct' = "invoke"
    /\ UNCHANGED optVars

\* delay(delayTime) has resolved: requestPermission() again
Resume(c) ==
    /\ pc[c] = "delay"
    /\ now >= wakeAt[c]
    /\ LET r == RequestPermissionCall(hourlyRequestTimestamps, dailyRequestTimestamps, now)
       IN  /\ Permission(r)
           /\ admits' = [admits EXCEPT ![c] = @ + (IF r.allowed THEN 1 ELSE 0)]
           /\ units' = [units EXCEPT ![c] = <<@[1] + Recorded(r)[1], @[2] + Recorded(r)[2]>>]
           /\ AfterPermission(c, r, args[c], fnCalls[c], sleeps[c])
    /\ lastAct' = "resume"
    /\ UNCHANGED <<configVars, now, ticks, args, fnOutcome, outcome, optVars>>

\* return fn(...args): the invocation settles as the promise of fn does
Settled(c, o) ==
    /\ pc[c] = "fn"
    /\ pc' = [pc EXCEPT ![c] = "idle"]
    /\ fnOutcome' = [fnOutcome EXCEPT ![c] = o]
    /\ outcome' = [outcome EXCEPT ![c] = o]
    /\ UNCHANGED <<args, wakeAt, sleeps, fnCalls, fnArgs, admits, units>>

\* faulty variant: a failed fn gives its unit back
FnSettleRefunding(c, o) ==
    /\ Settled(c, o)
    /\ lastAct' = "settle"
    /\ hourlyRequestTimestamps' =
          IF o.kind = "rejected" THEN ButLast(hourlyRequestTimestamps)
          ELSE hourlyRequestTimestamps
    /\ dailyRequestTimestamps' =
          IF o.kind = "rejected" THEN ButLast(dailyRequestTimestamps)
          ELSE dailyRequestTimestamps
    /\ UNCHANGED <<configVars, now, ticks, ret, denial, historyVars, optVars>>

\* the promise fn(...args) returned settles, and with it the invocation
FnSettle(c, o) ==
    /\ Settled(c, o)
    /\ lastAct' = "settle"
    /\ UNCHANGED <<limiterVars, now, ticks, ret, denial, historyVars, optVars>>

\* the limiter under direct calls
Next ==
    \/ Tick
    \/ RequestPermission
    \/ CheckThresholds

Spec == Init /\ [][Next]_vars

\* new RateLimiter({requestsPerHour: 2, requestsPerDay: 100})
ScenarioInit ==
    /\ hourlyLimit = 2
    /\ dailyLimit = 100
    /\ warningThresholdPercent = DEFAULT_WARNING_THRESHOLD
    /\ InitState

ScenarioSpec == ScenarioInit /\ [][Next]_vars

\* new RateLimiter({requestsPerHour: 100, requestsPerDay: 48000,
\* warningThresholdPercent: 0.1}): the daily limit of the yfinance limiter,
\* which 100 calls an hour do not reach within the run
WarnInit ==
    /\ hourlyLimit = 100
    /\ dailyLimit = 48000
    /\ warningThresholdPercent = 10
    /\ InitState

\* that limiter under direct calls while no timestamp expires
WarnNext ==
    \/ ShortTick
    \/ RequestPermission
    \/ CheckThresholds

WarnSpec == WarnInit /\ [][WarnNext]_vars

\* the limiter under callers of a wrapAsync-wrapped function
WrapNext ==
    \/ Tick
    \/ \E c \in Serial, a \in Tickers : Invoke(c, a)
    \/ \E c \in Serial : Resume(c)
    \/ \E c \in Serial, o \in FnOutcomes : FnSettle(c, o)

WrapSpec == Init /\ [][WrapNext]_vars

\* the limiter under direct calls, checkThresholds() also called twice running
TwiceNext ==
    \/ Tick
    \/ RequestPermission
    \/ CheckThresholds
    \/ CheckThresholdsAgain

TwiceSpec == Init /\ [][TwiceNext]_vars

\* new RateLimiter(options), a limit of 0 included
LiveInit ==
    /\ hourlyLimit \in 0..MaxHourlyLimit
    /\ dailyLimit \in 0..MaxDailyLimit
    /\ warningThresholdPercent = DEFAULT_WARNING_THRESHOLD
    /\ InitState

\* the timer of delay(delayTime) comes due
Elapse(c) ==
    /\ pc[c] = "delay"
    /\ now < wakeAt[c]
    /\ sleeps[c] <= MaxSleeps
    /\ now' = wakeAt[c]
    /\ lastAct' = "elapse"
    /\ UNCHANGED <<limiterVars, ticks, ret, denial, historyVars, wrapVars, optVars>>

\* rateLimitedFn(...args) is called, a bounded number of times in a run
LiveInvoke(c, a) ==
    /\ Len(admitted) <= dailyLimit
    /\ Invoke(c, a)

\* the clock advances by a millisecond or an hour
LiveTick ==
    /\ ticks < MaxLiveTicks
    /\ \E d \in {1, HourMs} : now' = now + d
    /\ ticks' = ticks + 1
    /\ lastAct' = "tick"
    /\ UNCHANGED <<limiterVars, ret, denial, historyVars, wrapVars, optVars>>

\* one caller of a wrapAsync-wrapped function, alone on the limiter
LiveNext ==
    \/ LiveTick
    \/ \E c \in Serial : Elapse(c)
    \/ \E c \in Serial, a \in Tickers : LiveInvoke(c, a)
    \/ \E c \in Serial : Resume(c)
    \/ \E c \in Serial, o \in FnOutcomes : FnSettle(c, o)

\* time advances and a timer that is due runs its continuation
LiveSpec ==
    /\ LiveInit
    /\ [][LiveNext]_vars
    /\ \A c \in Serial : WF_vars(Elapse(c)) /\ WF_vars(Resume(c))

\* ------------------------------------------------- concurrent invocations
\* new RateLimiter(options) shared by the callers
ConcInit ==
    /\ hourlyLimit \in 1..MaxHourlyLimit
    /\ dailyLimit = MaxDailyLimit
    /\ warningThresholdPercent = DEFAULT_WARNING_THRESHOLD
    /\ InitState

\* the ticker each caller's run is fetching
TickerOf(c) == IF c = "c1" THEN "AAPL" ELSE "MSFT"

\* invocations of the wrapped function by several callers at once: each runs
\* from one await (the delay, the promise of fn) to the next without
\* interruption, and between two awaits any other caller may run
ConcNext ==
    \/ ShortTick
    \/ \E c \in Callers : Elapse(c)
    \/ \E c \in Callers : LiveInvoke(c, TickerOf(c))
    \/ \E c \in Callers : Resume(c)
    \/ \E c \in Callers, o \in FnOutcomes : FnSettle(c, o)

ConcSpec == ConcInit /\ [][ConcNext]_vars

\* ------------------------------------------------------- optimizePortfolio
\* faulty variant: the message of every error is taken for a rate limit message
IncludesAnything(error) == TRUE

\* error.message.includes('Rate limit reached')
IncludesRateLimitReached(error) == error.value = "Rate limit reached"

\* the message of a thrown Error as the warning string
ErrorMessage(error) == <<Msg(error.value, 0, 0)>>

\* params.uploadedFileNames.length > 0 ? params.uploadedFileNames
\*                                      : MOCK_ASSETS.slice(0, 5)
TickersToFetch(names) ==
    IF Len(names) > 0 THEN names ELSE SubSeq(MOCK_ASSETS, 1, MockFallbackCount)

\* faulty variant: every ticker's fetch is started before the first is awaited
StartedAll(names, m) ==
    [NoRun EXCEPT !.pc = "fetching", !.uploadedFileNames = names, !.method = m,
                  !.tickersToFetch = TickersToFetch(names), !.index = 1,
                  !.fetched = TickersToFetch(names)]

\* the run when optimizePortfolio(params) reaches its first await: the for
\* loop has called rateLimitedFetchStockData with the first ticker
Started(names, m) ==
    [NoRun EXCEPT !.pc = "fetching", !.uploadedFileNames = names, !.method = m,
                  !.tickersToFetch = TickersToFetch(names), !.index = 1,
                  !.fetched = <<TickersToFetch(names)[1]>>]

\* faulty variant: stockData is kept whether it is empty or not
StockDataAny(r, o) ==
    [r EXCEPT !.allStockData = @ \cup {r.tickersToFetch[r.index]},
              !.outcomes = Append(@, o)]

\* the loop body after the await: stockData is kept if it is not empty
StockData(r, o) ==
    [r EXCEPT !.allStockData = IF o.value = "series"
                               THEN @ \cup {r.tickersToFetch[r.index]} ELSE @,
              !.outcomes = Append(@, o)]

\* faulty variant: Equal Weighting, which needs no data, stops fetching
MoreTickersUnlessEqual(r) ==
    r.method # "Equal Weighting" /\ r.index < Len(r.tickersToFetch)

\* the for loop has another ticker
MoreTickers(r) == r.index < Len(r.tickersToFetch)

\* the next iteration calls rateLimitedFetchStockData
NextTicker(r) ==
    [r EXCEPT !.index = @ + 1,
              !.fetched = Append(@, r.tickersToFetch[r.index + 1])]

\* the number of allocations generateRandomAllocations(numAssets) returns:
\* MOCK_ASSETS.slice(0, numAssets) has at most MOCK_ASSETS.length entries
AssetsToUse(numAssets) == Min(numAssets, Len(MOCK_ASSETS))

\* the results object: the number of allocations, how they are weighted and
\* whether efficientFrontierData is present
Results(r) ==
    IF r.dataFetchedSuccessfully
    THEN [allocations |-> AssetsToUse(IF Cardinality(r.allStockData) # 0
                                      THEN Cardinality(r.allStockData)
                                      ELSE Len(r.tickersToFetch)),
          weighting |-> IF r.method = "Equal Weighting" THEN "equal" ELSE "random",
          efficientFrontierData |-> r.method = "Monte Carlo Simulation"]
    ELSE [allocations |-> AssetsToUse(Len(r.tickersToFetch)),
          weighting |-> "random",
          efficientFrontierData |-> r.method = "Monte Carlo Simulation"]

\* return { results, warning: rateLimitWarning }
Returned(r) ==
    [r EXCEPT !.pc = "returned",
              !.response = [kind |-> "resolved", results |-> Results(r),
                            warning |-> r.rateLimitWarning]]

\* faulty variant: the value of checkThresholds() is not kept
AfterLoopDropped(r, w) ==
    Returned([r EXCEPT !.checks = @ + 1,
                       !.checked = w,
                       !.dataFetchedSuccessfully =
                           ~(r.allStockData = {} /\ Len(r.tickersToFetch) > 0)])

\* after the loop: checkThresholds() returned w; no data at all means mocks
AfterLoop(r, w) ==
    Returned([r EXCEPT !.rateLimitWarning = w,
                       !.checks = @ + 1,
                       !.checked = w,
                       !.dataFetchedSuccessfully =
                           ~(r.allStockData = {} /\ Len(r.tickersToFetch) > 0)])

\* faulty variant: an error that is not a rate limit error is thrown on
CaughtRethrow(r, error) ==
    IF IncludesRateLimitReached(error)
    THEN Returned([r EXCEPT !.outcomes = Append(@, error),
                            !.rateLimitWarning = ErrorMessage(error),
                            !.dataFetchedSuccessfully = FALSE])
    ELSE [r EXCEPT !.pc = "returned",
                   !.outcomes = Append(@, error),
                   !.response = [kind |-> "rejected"]]

\* faulty variant: the series collected before the throw are still used
CaughtUsingCollected(r, error) ==
    Returned([r EXCEPT !.outcomes = Append(@, error),
                       !.rateLimitWarning =
                           IF IncludesRateLimitReached(error)
                           THEN IF @ # Undefined THEN @ \o ErrorMessage(error)
                                ELSE ErrorMessage(error)
                           ELSE @,
                       !.dataFetchedSuccessfully = (r.allStockData # {})])

\* the catch block: the awaited fetch has thrown error
Caught(r, error) ==
    Returned([r EXCEPT !.outcomes = Append(@, error),
                       !.rateLimitWarning =
                           IF IncludesRateLimitReached(error)
                           THEN IF @ # Undefined THEN @ \o ErrorMessage(error)
                                ELSE ErrorMessage(error)
                           ELSE @,
                       !.dataFetchedSuccessfully = FALSE])

\* the run after the awaited fetch has settled with o; w is what
\* checkThresholds() returns if the loop is over
RunAfter(r, o, w) ==
    IF o.kind = "rejected" THEN Caught(r, o)
    ELSE IF MoreTickers(StockData(r, o)) THEN NextTicker(StockData(r, o))
    ELSE AfterLoop(StockData(r, o), w)

\* optimizePortfolio(params) is called and runs to its first await
OptimizePortfolio(c, names, m) ==
    /\ pc[c] = "idle"
    /\ run.pc # "fetching"
    /\ page.pc = "idle"
    /\ Len(admitted) < MaxAdmitted
    /\ run' = Started(names, m)
    /\ Call(c, TickersToFetch(names)[1])
    /\ lastAct' = "optimizePortfolio"
    /\ UNCHANGED <<page, alloc, hist>>

\* a fetch resolves and the loop goes on to the next ticker
FetchNext(c, o) ==
    /\ run.pc = "fetching"
    /\ pc[c] = "fn"
    /\ o.kind = "resolved"
    /\ MoreTickers(StockData(run, o))
    /\ run' = NextTicker(StockData(run, o))
    /\ Call(c, run.tickersToFetch[run.index + 1])
    /\ lastAct' = "fetchNext"
    /\ UNCHANGED <<page, alloc, hist>>

\* the last fetch resolves: checkThresholds(), the results, the return
FetchLast(c, o) ==
    /\ run.pc = "fetching"
    /\ o.kind = "resolved"
    /\ ~MoreTickers(StockData(run, o))
    /\ Settled(c, o)
    /\ LET k == CheckThresholdsCall(hourlyRequestTimestamps, dailyRequestTimestamps, now)
       IN  /\ Thresholds(k)
           /\ run' = AfterLoop(StockData(run, o), k.warning)
    /\ lastAct' = "fetchLast"
    /\ UNCHANGED <<configVars, now, ticks, historyVars, page, alloc, hist>>

\* a fetch throws: the catch block, the results, the return
FetchThrew(c, o) ==
    /\ run.pc = "fetching"
    /\ o.kind = "rejected"
    /\ Settled(c, o)
    /\ run' = Caught(run, o)
    /\ lastAct' = "fetchThrew"
    /\ UNCHANGED <<limiterVars, now, ticks, ret, denial, historyVars, page, alloc, hist>>

\* the clock advances by a millisecond or an hour
OptTick ==
    /\ ticks < MaxOptTicks
    /\ \E d \in {1, HourMs} : now' = now + d
    /\ ticks' = ticks + 1
    /\ lastAct' = "tick"
    /\ UNCHANGED <<limiterVars, ret, denial, historyVars, wrapVars, optVars>>

\* const yfinanceRateLimiter = new RateLimiter(...), the limits scaled down and
\* the threshold raised so that denials and warnings occur within a run
OptInit ==
    /\ hourlyLimit \in 1..MaxHourlyLimit
    /\ dailyLimit \in 1..MaxDailyLimit
    /\ warningThresholdPercent = 50
    /\ InitState

\* runs of optimizePortfolio, one after the other, on the shared limiter
OptNext ==
    \/ OptTick
    \/ \E c \in Serial : Elapse(c)
    \/ \E c \in Serial : Resume(c)
    \/ \E c \in Serial, names \in TickerLists, m \in Methods : OptimizePortfolio(c, names, m)
    \/ \E c \in Serial, o \in FetchOutcomes : FetchNext(c, o)
    \/ \E c \in Serial, o \in FetchOutcomes : FetchLast(c, o)
    \/ \E c \in Serial, o \in FetchOutcomes : FetchThrew(c, o)

OptSpec == OptInit /\ [][OptNext]_vars

\* ----------------------------------------- optimizePortfolio, long lists
\* one ticker more than there are mock assets
LongList == [i \in 1..(Len(MOCK_ASSETS) + 1) |-> IF i % 2 = 1 THEN "AAPL" ELSE "MSFT"]
\* params.uploadedFileNames: no name, one name, or the long list
ListsToLong == {<<>>, <<"MSFT">>, LongList}

\* const yfinanceRateLimiter = new RateLimiter({requestsPerHour: 2000,
\* requestsPerDay: 48000, warningThresholdPercent: 0.1})
YfinanceInit ==
    /\ hourlyLimit = 2000
    /\ dailyLimit = 48000
    /\ warningThresholdPercent = DEFAULT_WARNING_THRESHOLD
    /\ InitState

\* runs of optimizePortfolio on that limiter, which admits every fetch
LongNext ==
    \/ \E c \in Serial, names \in ListsToLong, m \in Methods : OptimizePortfolio(c, names, m)
    \/ \E c \in Serial, o \in FetchOutcomes : FetchNext(c, o)
    \/ \E c \in Serial, o \in FetchOutcomes : FetchLast(c, o)
    \/ \E c \in Serial, o \in FetchOutcomes : FetchThrew(c, o)

LongSpec == YfinanceInit /\ [][LongNext]_vars

\* ------------------------------------------------------------ page.tsx
\* the characters of a file name from its last dot on
Extension(name) ==
    CASE name = "AAPL.csv" -> ".csv"
      [] name = "MSFT.TXT" -> ".TXT"
      [] name = "notes.pdf" -> ".pdf"

\* String.prototype.toLowerCase on an extension
ToLowerCase(ext) == IF ext = ".TXT" THEN ".txt" ELSE ext

\* faulty variant: every file is taken for a ticker file
IsTickerFileAny(name) == TRUE

\* file.name.toLowerCase().endsWith('.csv') || ...endsWith('.txt')
IsTickerFile(name) == ToLowerCase(Extension(name)) \in {".csv", ".txt"}

\* uploadTickers(files): the names it returns, or the throw when every file
\* of a non-empty list has another extension
UploadTickers(files) ==
    LET processedFileNames == SelectSeq(files, IsTickerFile)
    IN  [processedFileNames |-> processedFileNames,
         threw |-> Len(processedFileNames) = 0 /\ Len(files) > 0]

\* handleFilesChange(newFiles)
HandleFilesChange(newFiles) ==
    /\ page.pc = "idle"
    /\ page' = [page EXCEPT !.uploadedFiles = newFiles,
                            !.optimizationResults = NoResults,
                            !.error = Null]
    /\ lastAct' = "handleFilesChange"
    /\ UNCHANGED <<limiterVars, now, ticks, ret, denial, historyVars, wrapVars, run, alloc, hist>>

\* handleOptimize() up to its first await: the check of uploadedFiles, then
\* the call of uploadTickers(uploadedFiles).  (The button that calls it is
\* disabled while isLoading.)
HandleOptimize ==
    /\ page.pc = "idle"
    /\ ~page.isLoading
    /\ IF Len(page.uploadedFiles) = 0
       THEN page' = [page EXCEPT !.error = "Please upload at least one CSV or TXT file"]
       ELSE /\ Len(admitted) < MaxAdmitted
            /\ page' = [page EXCEPT !.pc = "uploading", !.isLoading = TRUE,
                                    !.error = Null,
                                    !.optimizationResults = NoResults,
                                    !.files = page.uploadedFiles,
                                    !.method = page.selectedMethod]
    /\ lastAct' = "handleOptimize"
    /\ UNCHANGED <<limiterVars, now, ticks, ret, denial, historyVars, wrapVars, run, alloc, hist>>

\* uploadTickers has settled: handleOptimize goes on to setError and return,
\* or to optimizePortfolio(params), which runs to its first await
UploadSettled(c) ==
    /\ page.pc = "uploading"
    /\ pc[c] = "idle"
    /\ run.pc # "fetching"
    /\ LET u == UploadTickers(page.files)
       IN  IF u.threw \/ Len(u.processedFileNames) = 0
           THEN /\ page' = [page EXCEPT
                               !.pc = "idle", !.isLoading = FALSE,
                               !.error = IF u.threw THEN "Invalid file type(s)"
                                         ELSE "No valid files were processed"]
                /\ UNCHANGED <<limiterVars, now, ticks, ret, denial, historyVars,
                               wrapVars, run>>
           ELSE /\ page' = [page EXCEPT !.pc = "optimizing"]
                /\ run' = Started(u.processedFileNames, page.method)
                /\ Call(c, TickersToFetch(u.processedFileNames)[1])
    /\ lastAct' = "uploadSettled"
    /\ UNCHANGED <<alloc, hist>>

\* optimizePortfolio has resolved: setOptimizationResults, setIsLoading(false)
OptimizeSettled ==
    /\ page.pc = "optimizing"
    /\ run.pc = "returned"
    /\ page' = [page EXCEPT !.pc = "idle", !.isLoading = FALSE,
                            !.optimizationResults = run.response.results]
    /\ lastAct' = "optimizeSettled"
    /\ UNCHANGED <<limiterVars, now, ticks, ret, denial, historyVars, wrapVars, run, alloc, hist>>

\* the limiter of OptInit with hourly limit 2 and daily limit 3
PageInit ==
    /\ hourlyLimit = MaxHourlyLimit
    /\ dailyLimit = MaxDailyLimit
    /\ warningThresholdPercent = 50
    /\ InitState

\* the page, and optimizePortfolio called by it or directly
PageNext ==
    \/ \E c \in Serial : Elapse(c)
    \/ \E c \in Serial : Resume(c)
    \/ \E newFiles \in FileLists : HandleFilesChange(newFiles)
    \/ HandleOptimize
    \/ \E c \in Serial : UploadSettled(c)
    \/ OptimizeSettled
    \/ \E c \in Serial, names \in TickerLists :
          OptimizePortfolio(c, names, InitialPage.selectedMethod)
    \/ \E c \in Serial, o \in FetchOutcomes : FetchNext(c, o)
    \/ \E c \in Serial, o \in FetchOutcomes : FetchLast(c, o)
    \/ \E c \in Serial, o \in FetchOutcomes : FetchThrew(c, o)

PageSpec == PageInit /\ [][PageNext]_vars

\* ------------------------------------------- page.tsx: the form and Reset
\* the filters the form can be set to, and those of an AI suggestion
CustomFilters == [marketCapMin |-> "10000000000", volumeMin |-> Null, interval |-> "weekly"]
SuggestedFilters == [marketCapMin |-> "2000000000", volumeMin |-> "500000", interval |-> "daily"]
\* what getFilterSuggestions({}) settles with
SuggestionOutcomes == {[kind |-> "resolved", value |-> "suggestions"],
                       [kind |-> "rejected", value |-> "AI returned no suggestions."]}
\* the file lists of at most one file
OneFileLists == {files \in FileLists : Len(files) <= 1}

\* faulty variant: the results and the error of the last run are kept
AfterResetKeepsResults(p) ==
    [p EXCEPT !.uploadedFiles = <<>>,
              !.filters = initialFiltersState,
              !.selectedMethod = initialSelectedMethodState,
              !.filterSuggestions = Null,
              !.suggestionsError = Null]

\* the state the setters of handleReset leave
AfterReset(p) ==
    [p EXCEPT !.uploadedFiles = <<>>,
              !.filters = initialFiltersState,
              !.selectedMethod = initialSelectedMethodState,
              !.optimizationResults = NoResults,
              !.error = Null,
              !.filterSuggestions = Null,
              !.suggestionsError = Null]

\* handleReset(): the Reset All button is never disabled
HandleReset ==
    /\ page' = AfterReset(page)
    /\ lastAct' = "handleReset"
    /\ UNCHANGED <<limiterVars, now, ticks, ret, denial, historyVars, wrapVars, run, alloc, hist>>

\* handleFilesChange(newFiles) while handleOptimize is awaiting
HandleFilesChangeWhileLoading(newFiles) ==
    /\ page.pc # "idle"
    /\ page' = [page EXCEPT !.uploadedFiles = newFiles,
                            !.optimizationResults = NoResults,
                            !.error = Null]
    /\ lastAct' = "handleFilesChange"
    /\ UNCHANGED <<limiterVars, now, ticks, ret, denial, historyVars, wrapVars, run, alloc, hist>>

\* handleFiltersChange(newFiltersCandidate): filters that equal the current
\* ones field by field leave the state object as it is
HandleFiltersChange(newFiltersCandidate) ==
    /\ page' = [page EXCEPT !.filters = IF @ = newFiltersCandidate THEN @
                                        ELSE newFiltersCandidate,
                            !.filterSuggestions = Null,
                            !.suggestionsError = Null]
    /\ lastAct' = "handleFiltersChange"
    /\ UNCHANGED <<limiterVars, now, ticks, ret, denial, historyVars, wrapVars, run, alloc, hist>>

\* handleMethodChange(method)
HandleMethodChange(method) ==
    /\ page' = [page EXCEPT !.selectedMethod = method]
    /\ lastAct' = "handleMethodChange"
    /\ UNCHANGED <<limiterVars, now, ticks, ret, denial, historyVars, wrapVars, run, alloc, hist>>

\* handleGetSuggestions() up to its await (its button is disabled while
\* isSuggestingFilters)
HandleGetSuggestions ==
    /\ ~page.isSuggestingFilters
    /\ page' = [page EXCEPT !.isSuggestingFilters = TRUE,
                            !.suggestionsError = Null,
                            !.filterSuggestions = Null]
    /\ lastAct' = "handleGetSuggestions"
    /\ UNCHANGED <<limiterVars, now, ticks, ret, denial, historyVars, wrapVars, run, alloc, hist>>

\* getFilterSuggestions({}) has settled with o: try, catch and finally
SuggestionsSettled(o) ==
    /\ page.isSuggestingFilters
    /\ page' = [page EXCEPT !.isSuggestingFilters = FALSE,
                            !.filterSuggestions = IF o.kind = "resolved" THEN o.value ELSE @,
                            !.suggestionsError = IF o.kind = "rejected" THEN o.value ELSE @]
    /\ lastAct' = "suggestionsSettled"
    /\ UNCHANGED <<limiterVars, now, ticks, ret, denial, historyVars, wrapVars, run, alloc, hist>>

\* applySuggestedFilters(suggestedFilters), offered while suggestions are shown
ApplySuggestedFilters ==
    /\ page.filterSuggestions # Null
    /\ page.suggestionsError = Null
    /\ page' = [page EXCEPT !.filters = SuggestedFilters]
    /\ lastAct' = "applySuggestedFilters"
    /\ UNCHANGED <<limiterVars, now, ticks, ret, denial, historyVars, wrapVars, run, alloc, hist>>

\* the page with its form and its Reset All button.  Files are uploaded one
\* at a time, so a run fetches one ticker and the limiter of PageInit admits
\* every fetch at once.
ResetNext ==
    \/ \E newFiles \in OneFileLists : HandleFilesChange(newFiles)
    \/ \E newFiles \in OneFileLists : HandleFilesChangeWhileLoading(newFiles)
    \/ \E f \in {initialFiltersState, CustomFilters} : HandleFiltersChange(f)
    \/ \E method \in Methods : HandleMethodChange(method)
    \/ HandleGetSuggestions
    \/ \E o \in SuggestionOutcomes : SuggestionsSettled(o)
    \/ ApplySuggestedFilters
    \/ HandleReset
    \/ HandleOptimize
    \/ \E c \in Serial : UploadSettled(c)
    \/ OptimizeSettled
    \/ \E c \in Serial, o \in FnOutcomes : FetchLast(c, o)
    \/ \E c \in Serial, o \in FnOutcomes : FetchThrew(c, o)

ResetSpec == PageInit /\ [][ResetNext]_vars

\* ---------------------------------------------- generateRandomAllocations
\* Percentages are counted in thousandths of a percent while they are not
\* rounded and in hundredths once toFixed(2) has rounded them.
\* The values randomAlloc takes.  None of them, and no remainder they leave,
\* ends on half a hundredth, so rounding never meets a tie.
Draws == {0, 4, 10004, 10006}

\* x.toFixed(2), x in thousandths, the result in hundredths
ToFixed2(x) == (x + 5) \div 10

\* remainingPercentage after the first k iterations of the loop
RECURSIVE RemainingPercentage(_, _)
RemainingPercentage(draws, k) ==
    IF k = 0 THEN PercentTotal
    ELSE RemainingPercentage(draws, k - 1) - draws[k]

\* Math.random() * (remainingPercentage / (assetsToUse.length - i)) can take
\* the values draws[i + 1]: Math.random() is at least 0 and less than 1
CanDraw(n, draws) ==
    \A k \in DOMAIN draws :
        draws[k] * (n - (k - 1)) < RemainingPercentage(draws, k - 1)

\* e put into the sequence q, sorted by falling allocation, behind the
\* entries that are not smaller
RECURSIVE Insert(_, _)
Insert(q, e) ==
    IF q = <<>> THEN <<e>>
    ELSE IF q[1].allocation >= e.allocation
         THEN <<q[1]>> \o Insert(Tail(q), e)
         ELSE <<e>> \o q

\* allocations.sort((a, b) => b.allocation - a.allocation) on the first k
RECURSIVE SortDescending(_, _)
SortDescending(q, k) ==
    IF k = 0 THEN <<>> ELSE Insert(SortDescending(q, k - 1), q[k])

\* generateRandomAllocations(numAssets) when randomAlloc takes the values draws
GenerateRandomAllocations(numAssets, draws) ==
    LET n == AssetsToUse(numAssets)
        allocations ==
            [i \in 1..n |->
                [asset |-> MOCK_ASSETS[i],
                 allocation |-> IF i < n THEN ToFixed2(draws[i])
                                ELSE ToFixed2(RemainingPercentage(draws, n - 1))]]
    IN  SortDescending(allocations, n)

\* the Equal Weighting branch: every allocation (100 / numAssets).toFixed(2),
\* the last one (100 - sum).toFixed(2), in hundredths
EqualWeighting(allocations) ==
    LET numAssets == Len(allocations)
        equalAllocation == (2 * (PercentTotal \div 10) + numAssets) \div (2 * numAssets)
    IN  [i \in 1..numAssets |->
            [asset |-> allocations[i].asset,
             allocation |-> IF i < numAssets THEN equalAllocation
                            ELSE (PercentTotal \div 10) - (numAssets - 1) * equalAllocation]]

\* results.allocations of a run that has numAssets assets
ResultAllocations(numAssets, m, dataFetchedSuccessfully, draws) ==
    IF dataFetchedSuccessfully /\ m = "Equal Weighting"
    THEN EqualWeighting(GenerateRandomAllocations(numAssets, draws))
    ELSE GenerateRandomAllocations(numAssets, draws)

\* the result generation of optimizePortfolio for the run alloc describes
Allocate ==
    /\ alloc.pc = "input"
    /\ alloc' = [alloc EXCEPT
                    !.pc = "done",
                    !.allocations = ResultAllocations(alloc.numAssets, alloc.method,
                                                      alloc.dataFetchedSuccessfully,
                                                      alloc.draws)]
    /\ lastAct' = "allocate"
    /\ UNCHANGED <<limiterVars, now, ticks, ret, denial, historyVars, wrapVars, run, page, hist>>

\* a run about to generate its results: the number of assets, the method,
\* the path taken and the values randomAlloc is going to take
AllocInit ==
    /\ hourlyLimit = MaxHourlyLimit
    /\ dailyLimit = MaxDailyLimit
    /\ warningThresholdPercent = DEFAULT_WARNING_THRESHOLD
    /\ BaseState
    /\ hist = NoHist
    /\ \E numAssets \in 1..MaxAssets, m \in Methods, ok \in BOOLEAN :
          \E draws \in [1..(numAssets - 1) -> Draws] :
              /\ CanDraw(numAssets, draws)
              /\ alloc = [pc |-> "input", numAssets |-> numAssets, method |-> m,
                          dataFetchedSuccessfully |-> ok, draws |-> draws,
                          allocations |-> <<>>]

AllocNext == Allocate

AllocSpec == AllocInit /\ [][AllocNext]_vars

\* ------------------------------------------------------- getHistoricalData
\* src/services/stock_data.ts declares getHistoricalData twice (lines 24 and
\* 141); a call runs one of the two declarations.
Declarations == {"first", "second"}
\* const apiKey = process.env.ALPHAVANTAGE_API_KEY
ApiKeys == {"absent", "present"}
Intervals == {"daily", "weekly", "5y"}
\* what the provider does with the request: fetch() rejects, the status is
\* not 2xx, the body is not JSON, or the JSON is one of five kinds
ProviderAnswers ==
    {"network failure", "non-2xx", "not JSON", "Error Message", "Note",
     "no time series", "time series", "empty time series"}

\* the array of the first declaration and the array of generateMockData
InlineMockData == <<"2024-01-01", "2024-01-02">>
MockData == <<"2024-01-01", "2024-01-02", "2024-01-03">>
\* the dates of the time series of the provider, in the order of the sort
TimeSeriesDates == <<"2024-03-01", "2024-03-04">>

\* functionMap[interval] || 'TIME_SERIES_DAILY_ADJUSTED'
AvFunction(interval) ==
    CASE interval = "daily" -> "TIME_SERIES_DAILY_ADJUSTED"
      [] interval = "weekly" -> "TIME_SERIES_WEEKLY_ADJUSTED"
      [] interval = "monthly" -> "TIME_SERIES_MONTHLY_ADJUSTED"
      [] OTHER -> "TIME_SERIES_DAILY_ADJUSTED"

\* ['daily', 'weekly', 'monthly'].includes(interval) ? 'compact' : 'full'
OutputSize(interval) ==
    IF interval \in {"daily", "weekly", "monthly"} THEN "compact" ELSE "full"

HistResolved(series) == [kind |-> "resolved", series |-> series]
HistRejected(message) == [kind |-> "rejected", message |-> message]

\* await new Promise(resolve => setTimeout(resolve, ...)), then return series
MockAfterDelay(h, series) ==
    [h EXCEPT !.pc = "timer", !.series = series]

\* the first declaration up to its first await, or to its throw
FirstDeclaration(h) ==
    IF h.apiKey = "absent"
    THEN [h EXCEPT !.pc = "settled",
                   !.result = HistRejected("API Key is missing. Cannot fetch real stock data.")]
    ELSE MockAfterDelay(h, InlineMockData)

\* the second declaration up to its first await
SecondDeclaration(h) ==
    IF h.apiKey = "absent"
    THEN MockAfterDelay(h, MockData)
    ELSE [h EXCEPT !.pc = "fetch",
                   !.avFunction = AvFunction(h.interval),
                   !.outputSize = OutputSize(h.interval)]

\* getHistoricalData(ticker, interval) is called
GetHistoricalData ==
    /\ hist.pc = "called"
    /\ hist' = IF hist.declaration = "first" THEN FirstDeclaration(hist)
               ELSE SecondDeclaration(hist)
    /\ lastAct' = "getHistoricalData"
    /\ UNCHANGED <<limiterVars, now, ticks, ret, denial, historyVars, wrapVars, run, page, alloc>>

\* await fetch(apiUrl) has settled: a rejection goes to the catch block, a
\* response that is not ok to the mock data, any other on to response.json()
AfterFetch(h) ==
    IF h.answer \in {"network failure", "non-2xx"} THEN MockAfterDelay(h, MockData)
    ELSE [h EXCEPT !.pc = "json"]

FetchSettled ==
    /\ hist.pc = "fetch"
    /\ hist' = AfterFetch(hist)
    /\ lastAct' = "fetchSettled"
    /\ UNCHANGED <<limiterVars, now, ticks, ret, denial, historyVars, wrapVars, run, page, alloc>>

\* await response.json() has settled: a rejection goes to the catch block,
\* "Error Message" and the "API call frequency" Note to the mock data, a body
\* without a time series returns [], a time series is formatted and returned
AfterJson(h) ==
    CASE h.answer \in {"not JSON", "Error Message", "Note"} -> MockAfterDelay(h, MockData)
      [] h.answer = "no time series" ->
            [h EXCEPT !.pc = "settled", !.result = HistResolved(<<>>)]
      [] h.answer = "time series" ->
            [h EXCEPT !.pc = "settled", !.result = HistResolved(TimeSeriesDates)]
      [] h.answer = "empty time series" ->
            [h EXCEPT !.pc = "settled", !.result = HistResolved(<<>>)]

JsonSettled ==
    /\ hist.pc = "json"
    /\ hist' = AfterJson(hist)
    /\ lastAct' = "jsonSettled"
    /\ UNCHANGED <<limiterVars, now, ticks, ret, denial, historyVars, wrapVars, run, page, alloc>>

\* the timer has fired: return generateMockData(ticker), or the array
MockDelaySettled ==
    /\ hist.pc = "timer"
    /\ hist' = [hist EXCEPT !.pc = "settled", !.result = HistResolved(hist.series)]
    /\ lastAct' = "mockDelaySettled"
    /\ UNCHANGED <<limiterVars, now, ticks, ret, denial, historyVars, wrapVars, run, page, alloc>>

\* a call of getHistoricalData: the declaration it runs, the environment, the
\* arguments and what the provider is going to answer
HistInit ==
    /\ hourlyLimit = MaxHourlyLimit
    /\ dailyLimit = MaxDailyLimit
    /\ warningThresholdPercent = DEFAULT_WARNING_THRESHOLD
    /\ BaseState
    /\ alloc = NoAlloc
    /\ \E d \in Declarations, k \in ApiKeys, t \in Tickers, i \in Intervals,
          a \in ProviderAnswers :
          hist = [pc |-> "called", declaration |-> d, apiKey |-> k, ticker |-> t,
                  interval |-> i, answer |-> a, avFunction |-> "-",
                  outputSize |-> "-", series |-> <<>>,
                  result |-> [kind |-> "pending"]]

HistNext ==
    \/ GetHistoricalData
    \/ FetchSettled
    \/ JsonSettled
    \/ MockDelaySettled

HistSpec == HistInit /\ [][HistNext]_vars

\* ------------------------------------------------------------------ claims
\* the entries of a log of timestamps that lie in the window ending at t
LiveCount(log, window, t) ==
    Cardinality({i \in DOMAIN log : log[i] > t - window /\ log[i] <= t})

\* the oldest of those entries
OldestLive(log, window, t) ==
    CHOOSE x \in {log[i] : i \in DOMAIN log} :
        /\ x > t - window
        /\ \A i \in DOMAIN log : log[i] > t - window => x <= log[i]

\* C1: rolling-window quota safety.  At every moment the calls admitted in the
\* last 3,600,000 ms are at most requestsPerHour and those admitted in the
\* last 86,400,000 ms are at most requestsPerDay.
C1_QuotaSafety ==
    /\ LiveCount(admitted, HourMs, now) <= hourlyLimit
    /\ LiveCount(admitted, DayMs, now) <= dailyLimit

\* a call is denied with the hourly window full, after earlier admitted calls
\* have left the daily window
C1_Witness ==
    /\ ret.op = "requestPermission"
    /\ ~ret.allowed
    /\ LiveCount(admitted, HourMs, now) = hourlyLimit
    /\ Len(admitted) > dailyLimit

\* C2 as stated: with requestsPerHour calls admitted in the last hour the next
\* requestPermission() is denied with delayMs > 0, and the requestPermission()
\* made exactly delayMs later, with no other call in between, is allowed.
C2_Original ==
    [][lastAct' = "requestPermission" =>
        /\ (LiveCount(admitted, HourMs, now) >= hourlyLimit
                => ~ret'.allowed /\ ret'.delayMs > 0)
        /\ ((denial.limitType = "hourly" /\ now = denial.at + denial.delayMs)
                => ret'.allowed)]_vars

\* C2 amended: the call made exactly delayMs after an hourly denial is allowed
\* when fewer than requestsPerDay calls were admitted in the 86,400,000 ms
\* before it, and is denied on the daily limit otherwise.
C2_DelayThenAdmitted ==
    [][lastAct' = "requestPermission" =>
        /\ (LiveCount(admitted, HourMs, now) >= hourlyLimit
                => ~ret'.allowed /\ ret'.delayMs > 0)
        /\ ((denial.limitType = "hourly" /\ now = denial.at + denial.delayMs)
                => IF LiveCount(admitted, DayMs, now) < dailyLimit
                   THEN ret'.allowed /\ ret'.delayMs = Absent
                   ELSE /\ ~ret'.allowed
                        /\ ret'.warning[1].kind = "Daily rate limit exceeded")]_vars

\* a call made exactly delayMs after an hourly denial has been allowed
C2_Witness ==
    /\ ret.op = "requestPermission"
    /\ ret.waited
    /\ ret.allowed
    /\ lastAct = "requestPermission"

\* C3 as stated: from an empty log, the first N <= requestsPerHour calls of
\* requestPermission() made within one hour are all allowed, without delayMs.
C3_Original ==
    (/\ ret.op = "requestPermission"
     /\ nCalls <= hourlyLimit
     /\ ret.at - firstCallAt < HourMs)
        => ret.allowed /\ ret.delayMs = Absent

\* C3 amended: the same for N <= min(requestsPerHour, requestsPerDay).
C3_FirstCallsAdmitted ==
    (/\ ret.op = "requestPermission"
     /\ nCalls <= Min(hourlyLimit, dailyLimit)
     /\ ret.at - firstCallAt < HourMs)
        => ret.allowed /\ ret.delayMs = Absent

\* the last of requestsPerHour >= 2 calls made within an hour, some time
\* after the first, has been allowed
C3_Witness ==
    /\ ret.op = "requestPermission"
    /\ ret.allowed
    /\ nCalls = hourlyLimit
    /\ nCalls >= 2
    /\ ret.at > firstCallAt
    /\ ret.at - firstCallAt < HourMs

\* the clock readings at which a later requestPermission() is compared
LaterTimes == {now + d : d \in {0, 1, DelayBufferMs, HourMs, HourMs + 1, DayMs}}

\* C4: checkThresholds() records no call.  It removes expired timestamps and
\* nothing else, and a requestPermission() made afterwards, at any later
\* time, returns and leaves what it would have without it.
C4_CheckThresholdsFrame ==
    [][lastAct' = "checkThresholds" =>
        /\ \E k \in 0..Len(hourlyRequestTimestamps) :
              /\ hourlyRequestTimestamps' =
                    SubSeq(hourlyRequestTimestamps, k + 1, Len(hourlyRequestTimestamps))
              /\ \A i \in 1..k : hourlyRequestTimestamps[i] <= now - HourMs
        /\ \E k \in 0..Len(dailyRequestTimestamps) :
              /\ dailyRequestTimestamps' =
                    SubSeq(dailyRequestTimestamps, k + 1, Len(dailyRequestTimestamps))
              /\ \A i \in 1..k : dailyRequestTimestamps[i] <= now - DayMs
        /\ admitted' = admitted
        /\ \A t \in LaterTimes :
              RequestPermissionCall(hourlyRequestTimestamps', dailyRequestTimestamps', t)
                = RequestPermissionCall(hourlyRequestTimestamps, dailyRequestTimestamps, t)]_vars

\* a checkThresholds() has removed expired timestamps and kept others
C4_Witness ==
    /\ lastAct = "checkThresholds"
    /\ ret.pruned > 0
    /\ Len(dailyRequestTimestamps) > 0

\* C5: pruning correctness.  After a requestPermission() or checkThresholds()
\* made at time t, every hourly timestamp ts has t - 3,600,000 < ts <= t and
\* every daily timestamp has t - 86,400,000 < ts <= t.
C5_PruningCorrect ==
    ret.op # "none" =>
        /\ \A i \in DOMAIN hourlyRequestTimestamps :
              /\ ret.at - HourMs < hourlyRequestTimestamps[i]
              /\ hourlyRequestTimestamps[i] <= ret.at
        /\ \A i \in DOMAIN dailyRequestTimestamps :
              /\ ret.at - DayMs < dailyRequestTimestamps[i]
              /\ dailyRequestTimestamps[i] <= ret.at

\* a call has removed expired timestamps; one call is left in the hourly
\* window and more in the daily one
C5_Witness ==
    /\ ret.op # "none"
    /\ ret.pruned > 0
    /\ Len(hourlyRequestTimestamps) > 0
    /\ Len(dailyRequestTimestamps) > Len(hourlyRequestTimestamps)
    /\ Len(admitted) > Len(dailyRequestTimestamps)

\* the warning w contains the message
Contains(w, m) == \E i \in DOMAIN w : w[i] = m

\* the warning w contains a message with "exceeded" in it
ContainsExceeded(w) ==
    \E i \in DOMAIN w : w[i].kind \in {"Hourly rate limit exceeded",
                                        "Daily rate limit exceeded"}

\* C6 as stated (WarnSpec): the requestPermission() that admits the 90th call
\* returns a warning containing "Approaching hourly rate limit (90/100)", and
\* the request after the 100th admitted call is denied with an "exceeded"
\* warning.
C6_Original ==
    /\ (ret.op = "requestPermission" /\ ret.allowed /\ Len(admitted) = 90)
            => Contains(ret.warning, Msg("Approaching hourly rate limit", 90, 100))
    /\ (ret.op = "requestPermission" /\ ~ret.allowed /\ Len(admitted) = 100)
            => ContainsExceeded(ret.warning)

\* C6 amended (WarnSpec): the warning reports the count before the call is
\* recorded.  The call admitting the 90th returns no warning, the call
\* admitting the 91st returns exactly "Approaching hourly rate limit
\* (90/100).", every call up to the 100th is admitted, and a request made
\* after the 100th is denied with "Hourly rate limit exceeded (100/100).".
C6_WarningAtThreshold ==
    ret.op = "requestPermission" =>
        /\ (ret.allowed /\ Len(admitted) <= 90) => ret.warning = Undefined
        /\ (ret.allowed /\ Len(admitted) = 91)
                => ret.warning = <<Msg("Approaching hourly rate limit", 90, 100)>>
        /\ (ret.allowed /\ Len(admitted) > 90)
                => ret.warning =
                     <<Msg("Approaching hourly rate limit", Len(admitted) - 1, 100)>>
        /\ ret.allowed => Len(admitted) <= 100
        /\ ~ret.allowed
                => /\ Len(admitted) = 100
                   /\ ret.warning = <<Msg("Hourly rate limit exceeded", 100, 100)>>
                   /\ ContainsExceeded(ret.warning)

\* the request after the 100th admitted call has been denied, the calls
\* having been made at two different clock readings
C6_Witness ==
    /\ ret.op = "requestPermission"
    /\ ~ret.allowed
    /\ Len(admitted) = 100
    /\ admitted[91] > admitted[1]

\* C7 (ScenarioSpec): with requestsPerHour = 2 and requestsPerDay = 100, of
\* three requestPermission() calls made from the empty log with no time
\* advance the first two are allowed and the third is denied with
\* delayMs > 0.
C7_Scenario ==
    (ret.op = "requestPermission" /\ ret.at = firstCallAt) =>
        /\ nCalls \in {1, 2} => ret.allowed /\ ret.delayMs = Absent
        /\ nCalls = 3 => ~ret.allowed /\ ret.delayMs > 0

\* the third call has been made and denied
C7_Witness ==
    /\ ret.op = "requestPermission"
    /\ lastAct = "requestPermission"
    /\ ret.at = firstCallAt
    /\ now = firstCallAt
    /\ nCalls = 3
    /\ ~ret.allowed

\* the timestamps of a log that are in the window ending at t, in order
Unexpired(log, window, t) == SelectSeq(log, LAMBDA ts : t - window < ts)

\* C8: an admitted requestPermission() appends now to both logs, each count
\* growing by exactly 1 over the unexpired entries; a denied one appends
\* nothing, the logs keeping exactly their unexpired entries.
C8_RecordIffAdmitted ==
    [][lastAct' = "requestPermission" =>
        LET h == Unexpired(hourlyRequestTimestamps, HourMs, now)
            d == Unexpired(dailyRequestTimestamps, DayMs, now)
        IN  IF ret'.allowed
            THEN /\ hourlyRequestTimestamps' = h \o <<now>>
                 /\ dailyRequestTimestamps' = d \o <<now>>
                 /\ Len(hourlyRequestTimestamps') = Len(h) + 1
                 /\ Len(dailyRequestTimestamps') = Len(d) + 1
            ELSE /\ hourlyRequestTimestamps' = h
                 /\ dailyRequestTimestamps' = d]_vars

\* a call has been denied on the daily limit after one was admitted, with
\* expired entries removed on the way
C8_Witness ==
    /\ lastAct = "requestPermission"
    /\ ~ret.allowed
    /\ ret.warning[1].kind = "Daily rate limit exceeded"
    /\ Len(hourlyRequestTimestamps) < Len(dailyRequestTimestamps)
    /\ Len(admitted) > Len(dailyRequestTimestamps)

\* C9: the denial result.  With the unexpired hourly count at the limit the
\* call is denied with delayMs = max(0, oldest hourly + 3,600,000 - now) + 100
\* and the hourly "exceeded" warning, whatever the daily count; otherwise with
\* the unexpired daily count at the limit it is denied with delayMs =
\* max(0, oldest daily + 86,400,000 - now) + 100 and the daily "exceeded"
\* warning; delayMs is present exactly when allowed is false.
C9_DenialResult ==
    [][lastAct' = "requestPermission" =>
        LET hc == LiveCount(hourlyRequestTimestamps, HourMs, now)
            dc == LiveCount(dailyRequestTimestamps, DayMs, now)
        IN  /\ hc >= hourlyLimit =>
                /\ ~ret'.allowed
                /\ ret'.delayMs =
                      Max(0, OldestLive(hourlyRequestTimestamps, HourMs, now)
                                + 3600000 - now) + 100
                /\ ret'.warning = <<Msg("Hourly rate limit exceeded", hc, hourlyLimit)>>
            /\ (hc < hourlyLimit /\ dc >= dailyLimit) =>
                /\ ~ret'.allowed
                /\ ret'.delayMs =
                      Max(0, OldestLive(dailyRequestTimestamps, DayMs, now)
                                + 86400000 - now) + 100
                /\ ret'.warning = <<Msg("Daily rate limit exceeded", dc, dailyLimit)>>
            /\ (hc < hourlyLimit /\ dc < dailyLimit) => ret'.allowed
            /\ (ret'.delayMs # Absent) <=> ~ret'.allowed]_vars

\* a call has been denied on the hourly limit with the daily limit reached
\* too, the hourly log holding calls of different times
C9_Witness ==
    /\ lastAct = "requestPermission"
    /\ ~ret.allowed
    /\ ret.warning[1].kind = "Hourly rate limit exceeded"
    /\ Len(dailyRequestTimestamps) >= dailyLimit
    /\ Len(hourlyRequestTimestamps) >= 2
    /\ hourlyRequestTimestamps[1] < hourlyRequestTimestamps[2]
    /\ ret.delayMs < HourMs + DelayBufferMs

\* C10 (WrapSpec): an invocation of the wrapped function calls fn once, with
\* its own arguments, and only after one of its requestPermission() calls
\* was allowed; it records one timestamp in each log, before fn starts; and
\* it settles as fn settled.
C10_WrapCallsFnOnce ==
    \A c \in Callers :
        /\ fnCalls[c] <= admits[c]
        /\ pc[c] = "delay" =>
                fnCalls[c] = 0 /\ admits[c] = 0 /\ units[c] = <<0, 0>>
        /\ pc[c] = "fn" =>
                /\ fnCalls[c] = 1 /\ admits[c] = 1 /\ units[c] = <<1, 1>>
                /\ fnArgs[c] = args[c]
                /\ outcome[c] = Pending
        /\ (pc[c] = "idle" /\ outcome[c] # Pending) =>
                /\ fnCalls[c] = 1 /\ admits[c] = 1 /\ units[c] = <<1, 1>>
                /\ fnArgs[c] = args[c]
                /\ outcome[c] = fnOutcome[c]

\* an invocation that was delayed has settled with fn's failure
C10_Witness ==
    \E c \in Callers :
        /\ pc[c] = "idle"
        /\ outcome[c] = [kind |-> "rejected", value |-> "Error"]
        /\ sleeps[c] >= 1

\* C12: idempotence of checkThresholds().  A checkThresholds() called right
\* after another one, with no time advance and no requestPermission() in
\* between, returns the same string, or the same absence of a string.
C12_CheckThresholdsIdempotent ==
    [][lastAct' = "checkThresholdsAgain" =>
          /\ ret.op = "checkThresholds"
          /\ ret'.op = "checkThresholds"
          /\ ret'.at = ret.at
          /\ ret'.warning = ret.warning]_vars

\* the second of two calls has returned a warning, the first one having
\* removed expired timestamps
C12_Witness ==
    /\ lastAct = "checkThresholdsAgain"
    /\ ret.warning # Undefined
    /\ Len(admitted) > Len(dailyRequestTimestamps)

\* C11: wrapAsync never gives up.  A denied invocation neither settles nor
\* calls fn: it sleeps delayMs, or 1000 ms when delayMs is absent or 0, and
\* asks again, however often it has been denied.  With both limits at least
\* 1, time advancing and no other caller, a sleeping invocation is eventually
\* admitted and fn is called.
C11_NeverGivesUp ==
    /\ [][\A c \in Serial :
            (lastAct' \in {"invoke", "resume"} /\ pc[c] # "fn" /\ ~ret'.allowed) =>
                /\ pc'[c] = "delay"
                /\ wakeAt'[c] = now + (IF ret'.delayMs = Absent \/ ret'.delayMs = 0
                                        THEN DefaultDelayMs ELSE ret'.delayMs)
                /\ outcome'[c] = Pending
                /\ fnCalls'[c] = 0]_vars
    /\ \A c \in Serial :
          (hourlyLimit >= 1 /\ dailyLimit >= 1 /\ pc[c] = "delay") ~> (pc[c] = "fn")

\* fn is called after the invocation was denied on the hourly and then on the
\* daily limit and slept both times
C11_Witness ==
    \E c \in Serial :
        /\ pc[c] = "fn"
        /\ sleeps[c] = 2
        /\ fnCalls[c] = 1
        /\ hourlyLimit >= 1
        /\ dailyLimit >= 1

\* an invocation on a limiter with a limit of 0 sleeps the 1000 ms fallback
C11_FallbackWitness ==
    \E c \in Serial :
        /\ pc[c] = "delay"
        /\ ret.delayMs = 0
        /\ wakeAt[c] = ret.at + DefaultDelayMs
        /\ sleeps[c] >= 2

\* the last element of a sequence
Last(q) == q[Len(q)]

\* some fetch of the run has thrown
SomeFetchThrew(r) == \E i \in DOMAIN r.outcomes : r.outcomes[i].kind = "rejected"

\* C13: optimizePortfolio never fails outright.  However a fetch settles,
\* with a series, an empty series or any thrown error, a run that ends
\* resolves with a results object holding at least one allocation.
C13_NeverFailsOutright ==
    [][(run.pc = "fetching" /\ run'.pc # "fetching") =>
          /\ run'.pc = "returned"
          /\ Len(run'.outcomes) = Len(run.outcomes) + 1
          /\ run'.response.kind = "resolved"
          /\ run'.response.results.allocations >= 1]_vars

\* a run of two tickers has resolved although the second fetch threw the
\* missing-credential error
C13_Witness ==
    /\ run.pc = "returned"
    /\ Len(run.tickersToFetch) = 2
    /\ Len(run.outcomes) = 2
    /\ run.outcomes[2] = [kind |-> "rejected", value |-> "API Key is missing"]
    /\ run.response.kind = "resolved"

\* C14: an empty series is skipped.  The step in which a fetch returns an
\* empty series leaves the mapping as it was and, if the list has another
\* ticker, calls the fetch for it; a run in which no fetch threw has fetched
\* every ticker of the list.
C14_EmptySeriesSkipped ==
    [][/\ (/\ lastAct' \in {"fetchNext", "fetchLast"}
           /\ Last(run'.outcomes).value = "empty") =>
              /\ run'.allStockData = run.allStockData
              /\ MoreTickers(run) =>
                    /\ run'.pc = "fetching"
                    /\ run'.fetched = Append(run.fetched, run.tickersToFetch[run.index + 1])
       /\ (run'.pc = "returned" /\ ~SomeFetchThrew(run')) =>
              run'.fetched = run'.tickersToFetch]_vars

\* the first of two different tickers came back empty, the second with a
\* series, and only the second is in the mapping
C14_Witness ==
    /\ run.pc = "returned"
    /\ Len(run.outcomes) = 2
    /\ run.outcomes[1].value = "empty"
    /\ run.outcomes[2].value = "series"
    /\ run.tickersToFetch[1] # run.tickersToFetch[2]
    /\ run.allStockData = {run.tickersToFetch[2]}

\* C15: the fetches of a run are serialized in list order.  The tickers
\* fetched so far are a prefix of the list, at most one of them has not
\* settled, and the fetch of the next ticker is called in the step in which
\* the fetch before it settles.
C15_FetchesSerialized ==
    /\ [](/\ Len(run.fetched) <= Len(run.tickersToFetch)
          /\ run.fetched = SubSeq(run.tickersToFetch, 1, Len(run.fetched))
          /\ Len(run.fetched) - Len(run.outcomes) \in {0, 1}
          /\ run.pc = "fetching" =>
                /\ Len(run.fetched) = Len(run.outcomes) + 1
                /\ run.index = Len(run.fetched)
                /\ \A c \in Serial : pc[c] \in {"delay", "fn"} /\ args[c] = Last(run.fetched)
          /\ run.pc = "returned" => Len(run.fetched) = Len(run.outcomes))
    /\ [][(run.pc = "fetching" /\ Len(run'.fetched) > Len(run.fetched)) =>
              /\ \A c \in Serial : pc[c] = "fn"
              /\ Len(run'.fetched) = Len(run.fetched) + 1
              /\ Len(run'.outcomes) = Len(run.fetched)]_vars

\* the second fetch of a run waits for admission after the first has resolved
C15_Witness ==
    /\ run.pc = "fetching"
    /\ run.index = 2
    /\ Len(run.outcomes) = 1
    /\ \E c \in Serial : pc[c] = "delay"

C17_RateLimitErrorSurfaced ==
    [][lastAct' = "fetchThrew" =>
          /\ run'.pc = "returned"
          /\ run'.response.kind = "resolved"
          /\ run'.response.results.weighting = "random"
          /\ IF Last(run'.outcomes).value = "Rate limit reached"
             THEN Contains(run'.response.warning,
                           Msg(Last(run'.outcomes).value, 0, 0))
             ELSE run'.response.warning = Undefined]_vars

\* the second fetch of a run threw the rate limit error and the response
\* carries its message
C17_Witness ==
    /\ run.pc = "returned"
    /\ Len(run.outcomes) = 2
    /\ run.outcomes[1].value = "series"
    /\ run.outcomes[2] = [kind |-> "rejected", value |-> "Rate limit reached"]
    /\ run.response.warning = <<Msg("Rate limit reached", 0, 0)>>

\* a fetch threw another error while the limiter was at its hourly limit,
\* and the response has no warning
C17_OtherErrorWitness ==
    /\ run.pc = "returned"
    /\ Last(run.outcomes) = [kind |-> "rejected", value |-> "Error"]
    /\ Len(hourlyRequestTimestamps) = hourlyLimit
    /\ run.response.warning = Undefined

\* the files of a list that are CSV or TXT files
TickerFiles(files) == SelectSeq(files, LAMBDA f : f \in {"AAPL.csv", "MSFT.TXT"})

\* the step has called no fetch and recorded nothing
NothingFetched ==
    /\ run' = run
    /\ pc' = pc
    /\ admitted' = admitted
    /\ nCalls' = nCalls
    /\ hourlyRequestTimestamps' = hourlyRequestTimestamps
    /\ dailyRequestTimestamps' = dailyRequestTimestamps

C18_InvalidFilesWitness ==
    /\ lastAct = "uploadSettled"
    /\ page.files = <<"notes.pdf", "notes.pdf">>
    /\ page.error = "Invalid file type(s)"
    /\ admitted = <<>>

\* the sum of the allocations of a result, in hundredths of a percent
RECURSIVE SumAllocations(_, _)
SumAllocations(q, k) ==
    IF k = 0 THEN 0 ELSE SumAllocations(q, k - 1) + q[k].allocation

\* C19: the rounded allocations of every result sum to 100 within 0.01.
C19_AllocationsSumTo100 ==
    alloc.pc = "done" =>
        /\ SumAllocations(alloc.allocations, Len(alloc.allocations)) >= 10000 - 1
        /\ SumAllocations(alloc.allocations, Len(alloc.allocations)) <= 10000 + 1

\* what does hold: the Equal Weighting branch sums to 100 exactly, and the
\* random allocations of at most four assets to 100 within 0.01
C19_SmallOrEqualSumTo100 ==
    alloc.pc = "done" =>
        LET total == SumAllocations(alloc.allocations, Len(alloc.allocations))
        IN  /\ Len(alloc.allocations) = alloc.numAssets
            /\ (alloc.dataFetchedSuccessfully /\ alloc.method = "Equal Weighting") =>
                    total = 10000
            /\ alloc.numAssets <= 4 => (total >= 9999 /\ total <= 10001)
            /\ total >= 10000 - 2 /\ total <= 10000 + 2

\* five random allocations that sum to 99.98
C19_OffByTwoHundredths ==
    /\ alloc.pc = "done"
    /\ alloc.numAssets = 5
    /\ alloc.draws = <<10004, 10004, 10004, 10004>>
    /\ SumAllocations(alloc.allocations, 5) = 9998

\* what a run shows of its fetching: everything but the method and the results
Fetching(r) ==
    [r EXCEPT !.method = "-",
              !.response = IF r.response.kind = "resolved"
                           THEN [kind |-> "resolved", warning |-> r.response.warning]
                           ELSE r.response]

\* C20: the method does not affect fetching.  In every step of a run, a run
\* in the same state but for params.method, on the same limiter and given the
\* same fetch outcome, takes the same step: it calls the fetch for the same
\* ticker or ends the same way, leaves the call logs in the same state and
\* has the same warning.  Two runs that differ only in the method so stay
\* alike in their fetch calls, the call logs and the warning, step by step.
C20_MethodDoesNotAffectFetching ==
    [][\A m \in Methods :
          LET twin == [run EXCEPT !.method = m]
              p == RequestPermissionCall(hourlyRequestTimestamps, dailyRequestTimestamps, now)
              k == CheckThresholdsCall(hourlyRequestTimestamps, dailyRequestTimestamps, now)
          IN  /\ lastAct' = "optimizePortfolio" =>
                    /\ Fetching(Started(run'.uploadedFileNames, m)) = Fetching(run')
                    /\ hourlyRequestTimestamps' = p.hourly
                    /\ dailyRequestTimestamps' = p.daily
              /\ lastAct' \in {"fetchNext", "fetchLast", "fetchThrew"} =>
                    /\ Fetching(RunAfter(twin, Last(run'.outcomes), k.warning)) = Fetching(run')
                    /\ MoreTickers(StockData(twin, Last(run'.outcomes)))
                           = MoreTickers(StockData(run, Last(run'.outcomes)))
                    /\ <<hourlyRequestTimestamps', dailyRequestTimestamps'>> =
                           IF RunAfter(twin, Last(run'.outcomes), k.warning).pc = "fetching"
                           THEN <<p.hourly, p.daily>>
                           ELSE IF Last(run'.outcomes).kind = "resolved"
                                THEN <<k.hourly, k.daily>>
                                ELSE <<hourlyRequestTimestamps, dailyRequestTimestamps>>]_vars

\* an Equal Weighting run of two tickers has fetched both and returned
\* equal weights with the warning of the limiter
C20_Witness ==
    /\ run.pc = "returned"
    /\ run.method = "Equal Weighting"
    /\ run.response.results.weighting = "equal"
    /\ Len(run.fetched) = 2
    /\ Len(admitted) >= 2
    /\ run.response.warning # Undefined

\* the two fixed arrays returned in place of provider data
Synthetic == {MockData, InlineMockData}

\* C21: getHistoricalData never fails.  A call that has settled has resolved;
\* with the API key absent its value is a non-empty synthetic series; and when
\* the provider answers with a network failure, a status that is not 2xx, an
\* error payload or a rate-limit note, its value is the empty or a synthetic
\* series.
C21_NeverFails ==
    hist.pc = "settled" =>
        /\ hist.result.kind = "resolved"
        /\ hist.apiKey = "absent" =>
              (hist.result.series \in Synthetic /\ hist.result.series # <<>>)
        /\ hist.answer \in {"network failure", "non-2xx", "not JSON", "Error Message", "Note"} =>
              hist.result.series \in Synthetic \cup {<<>>}

\* the first declaration, called with the key absent, has thrown
C21_MissingKeyThrows ==
    /\ hist.pc = "settled"
    /\ hist.declaration = "first"
    /\ hist.apiKey = "absent"
    /\ hist.result = HistRejected("API Key is missing. Cannot fetch real stock data.")

\* the second declaration alone does what C21 says
C21_SecondDeclarationNeverFails ==
    hist.pc # "none" /\ hist.declaration = "second" => C21_NeverFails

\* C22: Reset All clears everything.  In the state handleReset leaves, the
\* uploaded file list is empty, the filters and the selected method have
\* their initial values, and the optimization results, the error, the AI
\* suggestions and their error are null.
C22_ResetClearsEverything ==
    lastAct = "handleReset" =>
        /\ page.uploadedFiles = <<>>
        /\ page.filters = initialFiltersState
        /\ page.selectedMethod = initialSelectedMethodState
        /\ page.optimizationResults = NoResults
        /\ page.error = Null
        /\ page.filterSuggestions = Null
        /\ page.suggestionsError = Null

\* Reset All pressed after an optimization has delivered its results
C22_Witness ==
    /\ lastAct = "handleReset"
    /\ page.pc = "idle"
    /\ run.pc = "returned"
    /\ run.response.results.allocations > 0

\* the message one window contributes, as C23 states it
WindowMessage(exceeded, approaching, count, limit) ==
    IF count >= limit
    THEN <<Msg(exceeded, count, limit)>>
    ELSE IF count * 100 >= limit * (100 - warningThresholdPercent)
    THEN <<Msg(approaching, count, limit)>>
    ELSE <<>>

\* C23: the result of checkThresholds() as a function of the pruned counts.
\* Each window contributes an 'exceeded' message when its count has reached
\* its limit, otherwise an 'Approaching' message when its count has reached
\* limit * (1 - warningThresholdPercent), otherwise nothing; the result is the
\* hourly message followed by the daily message, and it is undefined exactly
\* when both counts are below their warning thresholds.
C23_CheckThresholdsResult ==
    ret.op = "checkThresholds" =>
        LET hourlyCount == Len(hourlyRequestTimestamps)
            dailyCount == Len(dailyRequestTimestamps)
        IN  /\ ret.warning =
                  WindowMessage("Hourly rate limit exceeded",
                                "Approaching hourly rate limit", hourlyCount, hourlyLimit)
                  \o WindowMessage("Daily rate limit exceeded",
                                   "Approaching daily rate limit", dailyCount, dailyLimit)
            /\ ret.warning = Undefined <=>
                  /\ hourlyCount * 100 < hourlyLimit * (100 - warningThresholdPercent)
                  /\ dailyCount * 100 < dailyLimit * (100 - warningThresholdPercent)

\* checkThresholds() has returned an hourly message followed by a daily one
C23_Witness ==
    /\ ret.op = "checkThresholds"
    /\ Len(ret.warning) = 2
    /\ ret.warning[1].kind = "Approaching hourly rate limit"
    /\ ret.warning[2].kind = "Daily rate limit exceeded"

\* C24: concurrent callers of the shared limiter.  While several wrapped
\* invocations interleave at their sleeps and at the await of fn, an
\* invocation that has been admitted has recorded exactly one timestamp in
\* each log, one that is still waiting has recorded none, and neither log
\* nor the calls admitted within a window ever exceed the limit.
C24_ConcurrentCallersSafe ==
    /\ \A c \in Callers :
          /\ pc[c] = "fn" =>
                (units[c] = <<1, 1>> /\ admits[c] = 1 /\ fnCalls[c] = 1)
          /\ pc[c] = "delay" =>
                (units[c] = <<0, 0>> /\ admits[c] = 0 /\ fnCalls[c] = 0)
          /\ (pc[c] = "idle" /\ outcome[c] # Pending) =>
                (units[c] = <<1, 1>> /\ admits[c] = 1 /\ fnCalls[c] = 1)
    /\ Len(hourlyRequestTimestamps) <= hourlyLimit
    /\ Len(dailyRequestTimestamps) <= dailyLimit
    /\ LiveCount(admitted, HourMs, now) <= hourlyLimit
    /\ LiveCount(admitted, DayMs, now) <= dailyLimit

\* two invocations are awaiting fn at once, one of them after a sleep
C24_Witness ==
    /\ pc["c1"] = "fn"
    /\ pc["c2"] = "fn"
    /\ sleeps["c2"] >= 1
    /\ units["c1"] = <<1, 1>>
    /\ units["c2"] = <<1, 1>>

\* both callers are asleep after denials, to wake at different times
C24_BothAsleep ==
    /\ pc["c1"] = "delay"
    /\ pc["c2"] = "delay"
    /\ wakeAt["c1"] # wakeAt["c2"]

\* the timestamps of q never fall from one entry to the next
NonDecreasing(q) == \A i \in 1..(Len(q) - 1) : q[i] <= q[i + 1]

\* the last k entries of q
Suffix(q, k) == SubSeq(q, Len(q) - k + 1, Len(q))

\* C25: the hourly log is the recent part of the daily log.  Both logs are in
\* non-decreasing order, the hourly log is the suffix of the daily log made
\* of the entries newer than one hour before the last prune, and so the
\* hourly count is at most the daily count.
C25_HourlyIsRecentDaily ==
    /\ NonDecreasing(hourlyRequestTimestamps)
    /\ NonDecreasing(dailyRequestTimestamps)
    /\ Len(hourlyRequestTimestamps) <= Len(dailyRequestTimestamps)
    /\ hourlyRequestTimestamps =
          Suffix(dailyRequestTimestamps, Len(hourlyRequestTimestamps))
    /\ ret.op # "none" =>
          hourlyRequestTimestamps =
              SelectSeq(dailyRequestTimestamps, LAMBDA ts : ts > ret.at - HourMs)

\* the hourly log is a proper part of the daily log, with two entries of
\* different times
C25_Witness ==
    /\ Len(hourlyRequestTimestamps) = 2
    /\ hourlyRequestTimestamps[1] < hourlyRequestTimestamps[2]
    /\ Len(dailyRequestTimestamps) > Len(hourlyRequestTimestamps)

\* the counts the messages of the warning w report for the hourly and for
\* the daily window
HourlyCounts(w) ==
    {w[i].count : i \in {j \in DOMAIN w : w[j].kind = "Approaching hourly rate limit"}}
DailyCounts(w) ==
    {w[i].count : i \in {j \in DOMAIN w : w[j].kind = "Approaching daily rate limit"}}

\* C26: the warning of an admitted requestPermission() describes the counts
\* before the new call is recorded.  It is what checkThresholds() would have
\* returned just before the call, a count it reports is one less than the
\* count after the admission, and it never contains an 'exceeded' message.
C26_WarningIsPreRequest ==
    /\ []((ret.op = "requestPermission" /\ ret.allowed) =>
            /\ ~ContainsExceeded(ret.warning)
            /\ HourlyCounts(ret.warning) \subseteq {Len(hourlyRequestTimestamps) - 1}
            /\ DailyCounts(ret.warning) \subseteq {Len(dailyRequestTimestamps) - 1})
    /\ [][(ret'.op = "requestPermission" /\ ret'.allowed
              /\ Len(admitted') = Len(admitted) + 1) =>
            ret'.warning = CheckThresholdsCall(hourlyRequestTimestamps,
                                               dailyRequestTimestamps, now').warning]_vars

\* an admitted call has returned a warning about both windows, whose counts
\* differ
C26_Witness ==
    /\ ret.op = "requestPermission"
    /\ ret.allowed
    /\ HourlyCounts(ret.warning) = {Len(hourlyRequestTimestamps) - 1}
    /\ DailyCounts(ret.warning) = {Len(dailyRequestTimestamps) - 1}
    /\ Len(dailyRequestTimestamps) > Len(hourlyRequestTimestamps)

\* the length of the window a denial is about
WindowOf(limitType) == IF limitType = "hourly" THEN HourMs ELSE DayMs

\* C27: bounded backoff for a single caller.  With both limits at least 1 and
\* the caller alone on the limiter, an invocation sleeps at most twice before
\* fn is invoked, a second sleep follows an hourly denial and is for a daily
\* one, and every sleep lasts more than 100 ms and at most the length of the
\* window plus 100 ms.
C27_BoundedBackoff ==
    /\ []((hourlyLimit >= 1 /\ dailyLimit >= 1) =>
            \A c \in Serial :
                /\ sleeps[c] <= 2
                /\ pc[c] = "delay" =>
                      /\ denial.limitType # "none"
                      /\ wakeAt[c] - denial.at > DelayBufferMs
                      /\ wakeAt[c] - denial.at <= WindowOf(denial.limitType) + DelayBufferMs)
    /\ [][\A c \in Serial :
            (hourlyLimit >= 1 /\ dailyLimit >= 1 /\ pc'[c] = "delay" /\ sleeps'[c] = 2
                /\ sleeps[c] = 1) =>
                (denial.limitType = "hourly" /\ denial'.limitType = "daily")]_vars

\* fn has been invoked after two sleeps
C27_Witness ==
    /\ hourlyLimit >= 1
    /\ dailyLimit >= 1
    /\ pc["c1"] = "fn"
    /\ sleeps["c1"] = 2

\* the sequence p is the beginning of the sequence q
IsPrefix(p, q) == Len(p) <= Len(q) /\ SubSeq(q, 1, Len(p)) = p

\* C28: quota is never refunded.  Whatever step is taken, the entries of a
\* log that are not older than its window stay in the log, in their order;
\* and when fn settles, with a series, an empty series or a failure, both
\* logs stay as they are and hold the timestamp recorded for the invocation.
C28_QuotaNeverRefunded ==
    /\ [][/\ IsPrefix(Unexpired(hourlyRequestTimestamps, HourMs, now'),
                      Unexpired(hourlyRequestTimestamps', HourMs, now'))
          /\ IsPrefix(Unexpired(dailyRequestTimestamps, DayMs, now'),
                      Unexpired(dailyRequestTimestamps', DayMs, now'))]_vars
    /\ [][\A c \in Serial :
            (pc[c] = "fn" /\ pc'[c] = "idle") =>
                /\ hourlyRequestTimestamps' = hourlyRequestTimestamps
                /\ dailyRequestTimestamps' = dailyRequestTimestamps
                /\ units'[c] = <<1, 1>>
                /\ Last(hourlyRequestTimestamps') = Last(admitted')
                /\ Last(dailyRequestTimestamps') = Last(admitted')]_vars

\* fn has failed and the unit of the failed invocation fills the hourly window
C28_Witness ==
    /\ lastAct = "settle"
    /\ outcome["c1"].kind = "rejected"
    /\ Len(hourlyRequestTimestamps) = hourlyLimit
    /\ LiveCount(admitted, HourMs, now) = hourlyLimit
    /\ Last(hourlyRequestTimestamps) = Last(admitted)


\* the step in which the awaited fetch of a run throws
ThrowStep == run.pc = "fetching" /\ lastAct' = "fetchThrew"

\* C29: when the fetch for ticker i throws in optimizePortfolio, the loop
\* stops there: the run returns in that step with exactly the i tickers
\* fetched so far, no timestamp is pushed and no call admitted; the results
\* are the fallback ones whatever was collected before: random weighting and
\* min(number of tickers, 10) allocations; a returned run whose fetch threw
\* has made no fetch after the throwing one.
C29_ThrowStopsLoopAndFallsBack ==
    /\ [][ThrowStep =>
            (/\ run'.pc = "returned"
             /\ run'.index = run.index
             /\ run'.fetched = run.fetched
             /\ Len(run.fetched) = run.index
             /\ run'.allStockData = run.allStockData
             /\ admitted' = admitted
             /\ hourlyRequestTimestamps' = hourlyRequestTimestamps
             /\ dailyRequestTimestamps' = dailyRequestTimestamps
             /\ run'.dataFetchedSuccessfully = FALSE
             /\ run'.response.kind = "resolved"
             /\ run'.response.results.weighting = "random"
             /\ run'.response.results.allocations =
                    (IF Len(run.tickersToFetch) <= 10
                     THEN Len(run.tickersToFetch) ELSE 10))]_vars
    /\ [](run.pc = "returned" /\ SomeFetchThrew(run) =>
            (/\ Len(run.outcomes) = Len(run.fetched)
             /\ run.outcomes[Len(run.outcomes)].kind = "rejected"
             /\ \A i \in 1..(Len(run.outcomes) - 1) :
                    run.outcomes[i].kind # "rejected"))

\* a run over eleven tickers collected a series, then a fetch threw before
\* the last ticker: ten allocations, fewer fetches than tickers
C29_Witness ==
    /\ lastAct = "fetchThrew"
    /\ run.pc = "returned"
    /\ Len(run.tickersToFetch) = 11
    /\ run.allStockData # {}
    /\ Len(run.fetched) \in 2..10
    /\ run.response.results.allocations = 10
    /\ run.method = "Equal Weighting"


\* C30: no stale results after Reset.  handleOptimize captured the uploaded
\* files when it started (page.files); when handleReset or handleFilesChange
\* ran while it was awaiting and left other files on the page, the completion
\* of that optimization does not set optimizationResults.
C30_NoStaleResults ==
    [][(page.pc = "optimizing" /\ lastAct' = "optimizeSettled"
            /\ page.uploadedFiles # page.files)
        => page'.optimizationResults = NoResults]_vars

\* the optimization started with one file has completed after Reset All:
\* the page shows no file, is not loading and shows results
C30_StaleResultsShown ==
    /\ lastAct = "optimizeSettled"
    /\ page.pc = "idle"
    /\ ~page.isLoading
    /\ page.uploadedFiles = <<>>
    /\ Len(page.files) = 1
    /\ page.optimizationResults # NoResults

\* what the code does keep: while handleOptimize is awaiting, the results
\* are null, whatever handlers run meanwhile
C30_NullWhileAwaiting == [](page.pc # "idle" => page.optimizationResults = NoResults)

====
